---- MODULE Spec2Model ----
(***************************************************************************)
(* Sticklet: the purchase store (src/src/utils/memory.py, PurchaseMemory), *)
(* its filtered reads and execute_query, the receipt normalizer            *)
(* (create_purchase_from_receipt_data) and the coordinator entry points    *)
(* that combine them.                                                      *)
(*                                                                         *)
(* Python values are tagged records [t |-> tag, v |-> payload]:            *)
(*   "none"  None                "num"   a number (amounts are integers)   *)
(*   "str"   an opaque string    "text"  a string as a sequence of tokens  *)
(*   "list"  a list              "dict"  a mapping (a record of fields)    *)
(*   "absent" marks a key that a mapping does not contain.                 *)
(* A token of a "text" is one character, except that a month name is one   *)
(* token, and so is a word of an SQL text after its first word.            *)
(***************************************************************************)
EXTENDS Integers, Sequences, FiniteSets, TLC

VARIABLES
    purchases,   \* table purchases: sequence of rows in rowid order, id is the primary key
    items,       \* table items: sequence of rows in rowid order
    schema,      \* the tables of the database file
    connections, \* the number of connections to the database file that are open
    session,     \* st.session_state of the app: receipt_processed, raw_result, calibrated
    db_path,     \* the db_path the CoordinatorAgent was constructed with (None: the default file)
    calls,       \* add_purchase calls in flight on connections of their own, per caller
    now,         \* the wall clock: seconds elapsed since ClockStart
    last,        \* the last Store/coordinator call: arguments, outcome, store before it
    produced,    \* purchases the normalizer returned to save_calibrated_receipt, in call order
    doc,         \* normalizer run: the input document
    result       \* normalizer run: the outcome ([kind |-> "pending"] before the call)

vars == <<purchases, items, schema, connections, session, db_path, calls, now, last, produced, doc, result>>

----------------------------------------------------------------------------
(* Python values *)

None == [t |-> "none", v |-> 0]

Absent == [t |-> "absent", v |-> 0]

Num(n) == [t |-> "num", v |-> n]

Str(s) == [t |-> "str", v |-> s]

Text(toks) == [t |-> "text", v |-> toks]

List(seq) == [t |-> "list", v |-> seq]

Dict(rec) == [t |-> "dict", v |-> rec]

\* bool(x) for the values above
Truthy(x) ==
    CASE x.t = "none" -> FALSE
      [] x.t = "absent" -> FALSE
      [] x.t = "num" -> x.v # 0
      [] x.t = "str" -> x.v # ""
      [] x.t = "text" -> x.v # <<>>
      [] x.t = "list" -> x.v # <<>>
      [] OTHER -> TRUE

\* d.get(k): None when the key is absent
Get(d, k) == IF d[k].t = "absent" THEN None ELSE d[k]

\* d.get(k, default)
GetDefault(d, k, default) == IF d[k].t = "absent" THEN default ELSE d[k]

\* k in d
HasKey(d, k) == d[k].t # "absent"

\* the strings float() and int() accept, with their values
NumericLiteral == [s \in {"0", "2", "5", "-3"} |-> CASE s = "0" -> 0 [] s = "2" -> 2 [] s = "5" -> 5 [] OTHER -> 0 - 3]

\* float(x): [ok |-> TRUE, v |-> number] or [ok |-> FALSE] for TypeError/ValueError
float(x) ==
    CASE x.t = "num" -> [ok |-> TRUE, v |-> x.v]
      [] x.t = "str" /\ x.v \in DOMAIN NumericLiteral -> [ok |-> TRUE, v |-> NumericLiteral[x.v]]
      [] OTHER -> [ok |-> FALSE, v |-> 0]

\* int(x)
int(x) ==
    CASE x.t = "num" -> [ok |-> TRUE, v |-> x.v]
      [] x.t = "str" /\ x.v \in DOMAIN NumericLiteral -> [ok |-> TRUE, v |-> NumericLiteral[x.v]]
      [] OTHER -> [ok |-> FALSE, v |-> 0]

----------------------------------------------------------------------------
(* Dates, strftime and strptime *)

Digits == <<"0", "1", "2", "3", "4", "5", "6", "7", "8", "9">>

IsDigit(tok) == \E i \in 1..10 : Digits[i] = tok

DigitVal(tok) == (CHOOSE i \in 1..10 : Digits[i] = tok) - 1

MonthNames == <<"January", "February", "March", "April", "May", "June", "July",
                "August", "September", "October", "November", "December">>

\* zero-padded decimal of n in w digits
RECURSIVE Pad(_, _)
Pad(n, w) == IF w = 0 THEN <<>> ELSE Append(Pad(n \div 10, w - 1), Digits[(n % 10) + 1])

IsLeap(y) == (y % 4 = 0 /\ y % 100 # 0) \/ y % 400 = 0

DaysInMonth(y, m) ==
    CASE m = 2 -> IF IsLeap(y) THEN 29 ELSE 28
      [] m \in {4, 6, 9, 11} -> 30
      [] OTHER -> 31

\* date.strftime("%Y-%m-%d")
StrftimeYmd(d) == Pad(d.y, 4) \o <<"-">> \o Pad(d.m, 2) \o <<"-">> \o Pad(d.d, 2)

\* the value of a run of digit tokens
RECURSIVE RunVal(_)
RunVal(run) == IF run = <<>> THEN 0 ELSE 10 * RunVal(SubSeq(run, 1, Len(run) - 1)) + DigitVal(run[Len(run)])

\* number of leading digit tokens of s from position i, at most w
RECURSIVE DigitRun(_, _, _)
DigitRun(s, i, w) ==
    IF w = 0 \/ i > Len(s) \/ ~IsDigit(s[i]) THEN 0 ELSE 1 + DigitRun(s, i + 1, w - 1)

\* number of leading space tokens of s from position i
RECURSIVE SpaceRun(_, _)
SpaceRun(s, i) == IF i > Len(s) \/ s[i] # " " THEN 0 ELSE 1 + SpaceRun(s, i + 1)

NoParse == [ok |-> FALSE, y |-> 0, m |-> 0, d |-> 0]

\* _strptime: match s from position i against the directives fmt[j..], with the
\* fields found so far in acc. %Y is \d\d\d\d, %m is 1[0-2]|0[1-9]|[1-9],
\* %d is 3[01]|[12]\d|0[1-9]|[1-9]| [1-9], %B a month name, a blank is \s+,
\* any other token is itself; the whole string must be consumed.
RECURSIVE StrptimeMatch(_, _, _, _, _)
StrptimeMatch(s, i, fmt, j, acc) ==
    IF j > Len(fmt) THEN (IF i > Len(s) THEN [acc EXCEPT !.ok = TRUE] ELSE NoParse)
    ELSE LET f == fmt[j] IN
      CASE f = "%Y" ->
             IF DigitRun(s, i, 4) = 4
             THEN StrptimeMatch(s, i + 4, fmt, j + 1, [acc EXCEPT !.y = RunVal(SubSeq(s, i, i + 3))])
             ELSE NoParse
        [] f = "%m" ->
             LET n == DigitRun(s, i, 2)
                 val == RunVal(SubSeq(s, i, i + n - 1))
             IN IF n >= 1 /\ val \in 1..12
                THEN StrptimeMatch(s, i + n, fmt, j + 1, [acc EXCEPT !.m = val])
                ELSE NoParse
        [] f = "%d" ->
             LET lead == IF i <= Len(s) /\ s[i] = " " /\ DigitRun(s, i + 1, 2) = 1 THEN 1 ELSE 0
                 n == DigitRun(s, i + lead, 2)
                 val == RunVal(SubSeq(s, i + lead, i + lead + n - 1))
             IN IF n >= 1 /\ val \in 1..31
                THEN StrptimeMatch(s, i + lead + n, fmt, j + 1, [acc EXCEPT !.d = val])
                ELSE NoParse
        [] f = "%B" ->
             IF i <= Len(s) /\ (\E k \in 1..12 : MonthNames[k] = s[i])
             THEN StrptimeMatch(s, i + 1, fmt, j + 1,
                                [acc EXCEPT !.m = CHOOSE k \in 1..12 : MonthNames[k] = s[i]])
             ELSE NoParse
        [] f = " " ->
             LET n == SpaceRun(s, i)
             IN IF n >= 1 THEN StrptimeMatch(s, i + n, fmt, j + 1, acc) ELSE NoParse
        [] OTHER ->
             IF i <= Len(s) /\ s[i] = f THEN StrptimeMatch(s, i + 1, fmt, j + 1, acc) ELSE NoParse

\* datetime.datetime.strptime(s, fmt).date(): ValueError (ok = FALSE) when the
\* text does not match or names no calendar day
strptime(s, fmt) ==
    LET r == StrptimeMatch(s, 1, fmt, 1, NoParse)
    IN IF r.ok /\ r.y >= 1 /\ r.d <= DaysInMonth(r.y, r.m) THEN r ELSE NoParse

\* the format list with day-first tried before month-first
date_formats_day_first == <<
    <<"%Y", "-", "%m", "-", "%d">>,
    <<"%d", "/", "%m", "/", "%Y">>,
    <<"%m", "/", "%d", "/", "%Y">>,
    <<"%Y", "/", "%m", "/", "%d">>,
    <<"%B", " ", "%d", ",", " ", "%Y">>,
    <<"%d", " ", "%B", " ", "%Y">> >>

date_formats == <<
    <<"%Y", "-", "%m", "-", "%d">>,
    <<"%m", "/", "%d", "/", "%Y">>,
    <<"%d", "/", "%m", "/", "%Y">>,
    <<"%Y", "/", "%m", "/", "%d">>,
    <<"%B", " ", "%d", ",", " ", "%Y">>,
    <<"%d", " ", "%B", " ", "%Y">> >>

\* the loop over date_formats: the first format that parses, from index k on
RECURSIVE FirstParse(_, _)
FirstParse(s, k) ==
    IF k > Len(date_formats) THEN NoParse
    ELSE LET r == strptime(s, date_formats[k])
         IN IF r.ok THEN r ELSE FirstParse(s, k + 1)

\* the date normalisation block: a non-string makes strptime raise TypeError,
\* which the enclosing handler swallows, leaving the value as it was
NormalizeDate(transaction_date) ==
    IF transaction_date.t # "text" THEN transaction_date
    ELSE LET parsed_date == FirstParse(transaction_date.v, 1)
         IN IF parsed_date.ok THEN Text(StrftimeYmd(parsed_date)) ELSE transaction_date

----------------------------------------------------------------------------
(* The wall clock *)

\* the clock is the number of seconds elapsed since ClockStart
MaxTicks == 2

ClockStart == [date |-> [y |-> 2024, m |-> 2, d |-> 29], sod |-> 86398]

NextDay(d) ==
    IF d.d < DaysInMonth(d.y, d.m) THEN [d EXCEPT !.d = d.d + 1]
    ELSE IF d.m < 12 THEN [y |-> d.y, m |-> d.m + 1, d |-> 1]
    ELSE [y |-> d.y + 1, m |-> 1, d |-> 1]

RECURSIVE ClockAt(_)
ClockAt(t) ==
    IF t = 0 THEN ClockStart
    ELSE LET c == ClockAt(t - 1)
         IN IF c.sod + 1 < 86400 THEN [c EXCEPT !.sod = c.sod + 1]
            ELSE [date |-> NextDay(c.date), sod |-> 0]

\* datetime.date.today()
Today(t) == ClockAt(t).date

\* datetime.datetime.now().strftime("%Y%m%d%H%M%S"), the default of Purchase.id
DefaultId(t) ==
    LET c == ClockAt(t)
    IN Pad(c.date.y, 4) \o Pad(c.date.m, 2) \o Pad(c.date.d, 2)
       \o Pad(c.sod \div 3600, 2) \o Pad((c.sod \div 60) % 60, 2) \o Pad(c.sod % 60, 2)

----------------------------------------------------------------------------
(* Record model *)

PurchaseItem(name, price, quantity, category) ==
    [name |-> name, price |-> price, quantity |-> quantity, category |-> category]

Purchase(merchant_name, transaction_date, total_amount, its, currency, payment_method, notes, id) ==
    [id |-> id, merchant_name |-> merchant_name, transaction_date |-> transaction_date,
     total_amount |-> total_amount, currency |-> currency, payment_method |-> payment_method,
     notes |-> notes, items |-> its]

----------------------------------------------------------------------------
(* Normalizer: create_purchase_from_receipt_data *)

DateFallbackNote == "Date could not be read from receipt; using today's date as fallback."

ReceiptTotalItem(total) == PurchaseItem(Str("Receipt total"), total, 1, Str("Other"))

\* the loop over item_list from entry i on, with the items collected so far:
\* an entry that is not a mapping raises (item_data.get) outside the per-item
\* try; a failing float(price) or int(quantity) drops that entry only
RECURSIVE ExtractItems(_, _, _)
ExtractItems(item_list, i, acc) ==
    IF i > Len(item_list) THEN [raised |-> FALSE, items |-> acc]
    ELSE LET item_data == item_list[i] IN
      IF item_data.t # "dict" THEN [raised |-> TRUE, items |-> acc]
      ELSE LET name == Get(item_data.v, "name")
               price == Get(item_data.v, "price")
               price_float == float(price)
               quantity == int(GetDefault(item_data.v, "quantity", Num(1)))
           IN IF ~Truthy(name) THEN ExtractItems(item_list, i + 1, acc)
              ELSE IF price.t = "none" THEN ExtractItems(item_list, i + 1, acc)
              ELSE IF ~price_float.ok \/ ~quantity.ok THEN ExtractItems(item_list, i + 1, acc)
              ELSE ExtractItems(item_list, i + 1,
                     Append(acc, PurchaseItem(name, price_float.v, quantity.v,
                                              GetDefault(item_data.v, "category", Str("Other")))))

\* a normalizer that never adds the fallback item after the loop
EnsureItemsNoFallback(its, total) == its

\* "if not items: items = [PurchaseItem(name="Receipt total", ...)]" after the loop
EnsureItems(its, total) == IF its = <<>> THEN <<ReceiptTotalItem(total)>> ELSE its

Raise == [kind |-> "raise", purchase |-> 0]

ReturnNone == [kind |-> "none", purchase |-> 0]

Return(p) == [kind |-> "purchase", purchase |-> p]

\* alias resolution that lets the alias override a canonical value
UseAliasAlways(d, alias, missing, value) == IF HasKey(d, alias) THEN Get(d, alias) ELSE value

\* "if <alias> in receipt_data and <canonical is missing>: canonical =
\* receipt_data.get(<alias>)", inside "if missing_fields:"
UseAlias(d, alias, missing, value) == IF missing /\ HasKey(d, alias) THEN Get(d, alias) ELSE value

\* the body of the try block of create_purchase_from_receipt_data, at clock t
NormalizeBody(receipt_data, t) ==
    IF receipt_data.t # "dict" THEN ReturnNone
    ELSE
    LET d == receipt_data.v
        merchant0 == Get(d, "merchant_name")
        date0 == Get(d, "transaction_date")
        total0 == Get(d, "total_amount")
        missing_fields == ~Truthy(merchant0) \/ ~Truthy(date0) \/ total0.t = "none"
        merchant_name == UseAlias(d, "store", missing_fields /\ ~Truthy(merchant0), merchant0)
        date1 == UseAlias(d, "date", missing_fields /\ ~Truthy(date0), date0)
        total_amount == UseAlias(d, "total", missing_fields /\ total0.t = "none", total0)
        date_missing == ~Truthy(date1)
        date2 == IF date_missing THEN Text(StrftimeYmd(Today(t))) ELSE date1
        notes == IF date_missing THEN <<DateFallbackNote>> ELSE <<>>
        transaction_date == IF Truthy(date2) THEN NormalizeDate(date2) ELSE date2
        item_list == GetDefault(d, "items", List(<<>>))
        total_float == float(total_amount)
    IN IF ~Truthy(merchant_name) \/ total_amount.t = "none" THEN ReturnNone
       ELSE IF ~Truthy(item_list)
            THEN (IF ~total_float.ok THEN Raise
                  ELSE Return(Purchase(merchant_name, transaction_date, total_float.v,
                                       <<ReceiptTotalItem(total_float.v)>>,
                                       GetDefault(d, "currency", Str("USD")),
                                       Get(d, "payment_method"), notes, DefaultId(t))))
       ELSE IF item_list.t # "list" THEN Raise
       ELSE LET ex == ExtractItems(item_list.v, 1, <<>>)
            IN IF ex.raised THEN Raise
               ELSE IF ~total_float.ok THEN Raise
               ELSE Return(Purchase(merchant_name, transaction_date, total_float.v,
                                    EnsureItems(ex.items, total_float.v),
                                    GetDefault(d, "currency", Str("USD")),
                                    Get(d, "payment_method"), notes, DefaultId(t)))

\* the normalizer without its outer exception handler
create_purchase_unhandled(receipt_data, t) == NormalizeBody(receipt_data, t)

\* create_purchase_from_receipt_data: "except Exception" turns every raise into None
create_purchase_from_receipt_data(receipt_data, t) ==
    LET r == NormalizeBody(receipt_data, t)
    IN IF r.kind = "raise" THEN ReturnNone ELSE r

----------------------------------------------------------------------------
(* Store: the two tables and the SQL statements PurchaseMemory issues *)

\* json.dumps of a list of strings; a string's content is one token
RECURSIVE JsonElements(_, _)
JsonElements(notes, i) ==
    IF i > Len(notes) THEN <<>>
    ELSE (IF i > 1 THEN <<",", " ">> ELSE <<>>) \o <<"\"", notes[i], "\"">> \o JsonElements(notes, i + 1)

JsonDumps(notes) == <<"[">> \o JsonElements(notes, 1) \o <<"]">>

\* json.loads of such a text from position i on: [ok, v]; ok = FALSE is JSONDecodeError
RECURSIVE JsonParseElements(_, _, _)
JsonParseElements(toks, i, acc) ==
    IF i + 2 > Len(toks) \/ toks[i] # "\"" \/ toks[i + 2] # "\"" THEN [ok |-> FALSE, v |-> <<>>]
    ELSE LET acc2 == Append(acc, toks[i + 1]) IN
      IF i + 3 = Len(toks) /\ toks[i + 3] = "]" THEN [ok |-> TRUE, v |-> acc2]
      ELSE IF i + 4 <= Len(toks) /\ toks[i + 3] = "," /\ toks[i + 4] = " "
           THEN JsonParseElements(toks, i + 5, acc2)
           ELSE [ok |-> FALSE, v |-> <<>>]

JsonLoads(toks) ==
    IF Len(toks) < 2 \/ toks[1] # "[" THEN [ok |-> FALSE, v |-> <<>>]
    ELSE IF Len(toks) = 2 THEN [ok |-> toks[2] = "]", v |-> <<>>]
    ELSE JsonParseElements(toks, 2, <<>>)

\* notes_json = json.dumps(purchase.notes) if purchase.notes else None
NotesJson(notes) == IF notes # <<>> THEN Text(JsonDumps(notes)) ELSE None

\* the parameter tuple of the INSERT/UPDATE on purchases
PurchaseRow(purchase) ==
    [id |-> purchase.id, merchant_name |-> purchase.merchant_name,
     transaction_date |-> purchase.transaction_date, total_amount |-> purchase.total_amount,
     currency |-> purchase.currency, payment_method |-> purchase.payment_method,
     notes |-> NotesJson(purchase.notes)]

\* the parameter tuple of the INSERT on items
ItemRow(purchase_id, item) ==
    [purchase_id |-> purchase_id, name |-> item.name, price |-> item.price,
     quantity |-> item.quantity, category |-> item.category]

\* the rows of table s from position i on, in order, that are in the set keep
RECURSIVE RowsWhere(_, _, _)
RowsWhere(s, i, keep) ==
    IF i > Len(s) THEN <<>>
    ELSE (IF s[i] \in keep THEN <<s[i]>> ELSE <<>>) \o RowsWhere(s, i + 1, keep)

Rows(s) == {s[i] : i \in DOMAIN s}

\* SELECT id FROM purchases WHERE id = ?
SelectPurchaseId(db, id) == \E r \in Rows(db.purchases) : r.id = id

\* NOT NULL columns of purchases: merchant_name, transaction_date, total_amount
\* (total_amount is a number in every Purchase of the model)
PurchaseRowAccepted(row) == row.merchant_name.t # "none" /\ row.transaction_date.t # "none"

\* NOT NULL columns of items: purchase_id, name, price (price is a number)
ItemRowAccepted(row) == row.name.t # "none"

\* one SQL statement on the connection's view of the tables:
\* [ok |-> FALSE] is sqlite3.IntegrityError, the tables are then as before
ExecStatement(db, stmt) ==
    CASE stmt.op = "select_id" -> [ok |-> TRUE, db |-> db]
      [] stmt.op = "update_purchase" ->
           IF ~PurchaseRowAccepted(stmt.row) THEN [ok |-> FALSE, db |-> db]
           ELSE [ok |-> TRUE,
                 db |-> [db EXCEPT !.purchases =
                           [i \in DOMAIN db.purchases |->
                              IF db.purchases[i].id = stmt.row.id THEN stmt.row ELSE db.purchases[i]]]]
      [] stmt.op = "insert_purchase" ->
           IF ~PurchaseRowAccepted(stmt.row) \/ SelectPurchaseId(db, stmt.row.id)
           THEN [ok |-> FALSE, db |-> db]
           ELSE [ok |-> TRUE, db |-> [db EXCEPT !.purchases = Append(db.purchases, stmt.row)]]
      [] stmt.op = "delete_items" ->
           [ok |-> TRUE,
            db |-> [db EXCEPT !.items =
                      RowsWhere(db.items, 1, {r \in Rows(db.items) : r.purchase_id # stmt.id})]]
      [] stmt.op = "insert_item" ->
           IF ~ItemRowAccepted(stmt.row) THEN [ok |-> FALSE, db |-> db]
           ELSE [ok |-> TRUE, db |-> [db EXCEPT !.items = Append(db.items, stmt.row)]]
      [] stmt.op = "delete_purchase" ->
           [ok |-> TRUE,
            db |-> [db EXCEPT !.purchases =
                      RowsWhere(db.purchases, 1, {r \in Rows(db.purchases) : r.id # stmt.id})]]
      [] OTHER -> [ok |-> TRUE, db |-> db]

\* run stmts[i..] inside one transaction; statement number fail (0: none) hits a
\* persistence error. [failed |-> 0] when all ran, else the number that raised.
RECURSIVE ExecAll(_, _, _, _)
ExecAll(db, stmts, i, fail) ==
    IF i > Len(stmts) THEN [failed |-> 0, db |-> db]
    ELSE IF i = fail THEN [failed |-> i, db |-> db]
    ELSE LET r == ExecStatement(db, stmts[i])
         IN IF ~r.ok THEN [failed |-> i, db |-> db] ELSE ExecAll(r.db, stmts, i + 1, fail)

\* add_purchase whose update path leaves the old item rows in place
AddStatementsKeepItems(purchase, existing) ==
    <<[op |-> "select_id", id |-> purchase.id]>>
    \o (IF existing
        THEN <<[op |-> "update_purchase", row |-> PurchaseRow(purchase)],
               [op |-> "delete_items", id |-> <<>>]>>
        ELSE <<[op |-> "insert_purchase", row |-> PurchaseRow(purchase)]>>)
    \o [i \in 1..Len(purchase.items) |-> [op |-> "insert_item", row |-> ItemRow(purchase.id, purchase.items[i])]]
    \o <<[op |-> "commit"]>>

\* add_purchase that writes the purchase row and forgets the items
AddStatementsNoItems(purchase, existing) ==
    <<[op |-> "select_id", id |-> purchase.id]>>
    \o (IF existing
        THEN <<[op |-> "update_purchase", row |-> PurchaseRow(purchase)],
               [op |-> "delete_items", id |-> purchase.id]>>
        ELSE <<[op |-> "insert_purchase", row |-> PurchaseRow(purchase)]>>)
    \o <<[op |-> "commit"]>>

\* the statements of add_purchase up to the commit, given the result of the
\* existence check
AddStatements(purchase, existing) ==
    <<[op |-> "select_id", id |-> purchase.id]>>
    \o (IF existing
        THEN <<[op |-> "update_purchase", row |-> PurchaseRow(purchase)],
               [op |-> "delete_items", id |-> purchase.id]>>
        ELSE <<[op |-> "insert_purchase", row |-> PurchaseRow(purchase)]>>)
    \o [i \in 1..Len(purchase.items) |-> [op |-> "insert_item", row |-> ItemRow(purchase.id, purchase.items[i])]]
    \o <<[op |-> "commit"]>>

\* a rollback that leaves the uncommitted writes in the tables
RollbackKeepsWrites(committed, work) == work

\* conn.rollback(): the tables are those of the last commit
Rollback(committed, work) == committed

\* the try/except/finally of add_purchase around the statements stmts, run as r
AddFinish(db, purchase, fail, stmts, r) ==
    IF r.failed # 0
    THEN [db |-> Rollback(db, r.db), outcome |-> "raise", id |-> <<>>, stage |-> stmts[r.failed].op]
    ELSE IF fail = Len(stmts) + 1
         THEN [db |-> r.db, outcome |-> "raise", id |-> <<>>, stage |-> "verify"]
         ELSE [db |-> r.db, outcome |-> "ok", id |-> purchase.id, stage |-> "none"]

\* add_purchase once the existence check has chosen the statements stmts
AddOutcome(db, purchase, fail, stmts) == AddFinish(db, purchase, fail, stmts, ExecAll(db, stmts, 1, fail))

\* PurchaseMemory.add_purchase on the committed tables db, with a persistence
\* error at statement number fail (0: none; the statement after the commit is the
\* verifying SELECT). Result: the tables afterwards, "ok"/"raise", the returned
\* id and the kind of statement that failed ("none" if none did).
add_purchase(db, purchase, fail) ==
    AddOutcome(db, purchase, fail, AddStatements(purchase, SelectPurchaseId(db, purchase.id)))

\* delete_purchase that forgets the purchases row
DeleteStatementsKeepRow(purchase_id) ==
    <<[op |-> "delete_items", id |-> purchase_id],
      [op |-> "delete_purchase", id |-> <<>>],
      [op |-> "commit"]>>

\* delete_purchase that forgets the item rows
DeleteStatementsKeepItems(purchase_id) ==
    <<[op |-> "delete_items", id |-> <<>>],
      [op |-> "delete_purchase", id |-> purchase_id],
      [op |-> "commit"]>>

\* the statements of delete_purchase
DeleteStatements(purchase_id) ==
    <<[op |-> "delete_items", id |-> purchase_id],
      [op |-> "delete_purchase", id |-> purchase_id],
      [op |-> "commit"]>>

\* the try/except/finally of delete_purchase around the statements stmts, run as r
DeleteFinish(db, stmts, r) ==
    IF r.failed # 0
    THEN [db |-> Rollback(db, r.db), outcome |-> "raise", id |-> <<>>, stage |-> stmts[r.failed].op]
    ELSE [db |-> r.db, outcome |-> "ok", id |-> <<>>, stage |-> "none"]

\* PurchaseMemory.delete_purchase
delete_purchase(db, purchase_id, fail) ==
    DeleteFinish(db, DeleteStatements(purchase_id), ExecAll(db, DeleteStatements(purchase_id), 1, fail))

\* the notes column read back: [] for NULL or "", json.loads otherwise, [] when
\* that raises JSONDecodeError
ReadNotes(notes_json) ==
    IF ~Truthy(notes_json) THEN <<>>
    ELSE LET r == JsonLoads(notes_json.v) IN IF r.ok THEN r.v ELSE <<>>

\* the item query without its WHERE clause
SelectItemsOfAll(db, purchase_id) ==
    [i \in 1..Len(db.items) |->
       PurchaseItem(db.items[i].name, db.items[i].price, db.items[i].quantity, db.items[i].category)]

\* SELECT name, price, quantity, category FROM items WHERE purchase_id = ?
SelectItems(db, purchase_id) ==
    LET rows == RowsWhere(db.items, 1, {r \in Rows(db.items) : r.purchase_id = purchase_id})
    IN [i \in 1..Len(rows) |->
          PurchaseItem(rows[i].name, rows[i].price, rows[i].quantity, rows[i].category)]

\* a purchases row rehydrated with its items
RowToPurchase(db, row) ==
    Purchase(row.merchant_name, row.transaction_date, row.total_amount,
             SelectItems(db, row.id), row.currency, row.payment_method,
             ReadNotes(row.notes), row.id)

\* PurchaseMemory.get_all_purchases without a read error
get_all_purchases(db) == [i \in 1..Len(db.purchases) |-> RowToPurchase(db, db.purchases[i])]

----------------------------------------------------------------------------
(* Strings as the read paths use them: lower(), strip(), LIKE, BETWEEN *)

UpperLetters == <<"A", "B", "C", "D", "E", "F", "G", "H", "I", "J", "K", "L", "M",
                  "N", "O", "P", "Q", "R", "S", "T", "U", "V", "W", "X", "Y", "Z">>

LowerLetters == <<"a", "b", "c", "d", "e", "f", "g", "h", "i", "j", "k", "l", "m",
                  "n", "o", "p", "q", "r", "s", "t", "u", "v", "w", "x", "y", "z">>

LowerTok(tok) ==
    IF \E i \in 1..26 : UpperLetters[i] = tok
    THEN LowerLetters[CHOOSE i \in 1..26 : UpperLetters[i] = tok]
    ELSE tok

\* str.lower(), also SQL LOWER() on a text
lower(toks) == [i \in DOMAIN toks |-> LowerTok(toks[i])]

IsSpace(tok) == tok \in {" ", "\n", "\t"}

RECURSIVE lstrip(_)
lstrip(toks) == IF toks # <<>> /\ IsSpace(Head(toks)) THEN lstrip(Tail(toks)) ELSE toks

RECURSIVE rstrip(_)
rstrip(toks) ==
    IF toks # <<>> /\ IsSpace(toks[Len(toks)]) THEN rstrip(SubSeq(toks, 1, Len(toks) - 1)) ELSE toks

\* str.strip()
strip(toks) == rstrip(lstrip(toks))

\* str.startswith(prefix)
startswith(toks, prefix) == Len(toks) >= Len(prefix) /\ SubSeq(toks, 1, Len(prefix)) = prefix

\* the one-character tokens in code point order, which is the order of
\* SQLite's BINARY collation
CharOrder == <<"\t", "\n", " ", "%", "*", ",", "-", "/">> \o Digits \o <<";">> \o UpperLetters
             \o <<"_">> \o LowerLetters

Ord(tok) == CHOOSE i \in DOMAIN CharOrder : CharOrder[i] = tok

\* a <= b for two texts compared character by character
RECURSIVE TextLeq(_, _)
TextLeq(a, b) ==
    IF a = <<>> THEN TRUE
    ELSE IF b = <<>> THEN FALSE
    ELSE IF Head(a) = Head(b) THEN TextLeq(Tail(a), Tail(b))
    ELSE Ord(Head(a)) < Ord(Head(b))

\* the characters of a stored value: an opaque string is one token
Chars(x) == IF x.t = "text" THEN x.v ELSE <<x.v>>

\* s[i..] LIKE p[j..]: % matches any run of characters, _ any one character
RECURSIVE LikeMatch(_, _, _, _)
LikeMatch(s, i, p, j) ==
    IF j > Len(p) THEN i > Len(s)
    ELSE IF p[j] = "%" THEN \E k \in i..(Len(s) + 1) : LikeMatch(s, k, p, j + 1)
    ELSE /\ i <= Len(s)
         /\ p[j] = "_" \/ p[j] = s[i]
         /\ LikeMatch(s, i + 1, p, j + 1)

\* LOWER(column) LIKE ? with the parameter f"%{arg.lower()}%"; NULL matches nothing
LikeContains(x, arg) ==
    /\ x.t \in {"text", "str"}
    /\ LikeMatch(lower(Chars(x)), 1, <<"%">> \o lower(arg) \o <<"%">>, 1)

\* a BETWEEN that leaves the upper bound out
BetweenExclusiveEnd(x, start, end) ==
    /\ x.t \in {"text", "str"}
    /\ TextLeq(start, Chars(x)) /\ TextLeq(Chars(x), end) /\ Chars(x) # end

\* column BETWEEN ? AND ? on a text column
Between(x, start, end) ==
    /\ x.t \in {"text", "str"}
    /\ TextLeq(start, Chars(x)) /\ TextLeq(Chars(x), end)

----------------------------------------------------------------------------
(* Store: the filtered reads and execute_query *)

\* _initialize_db: CREATE TABLE IF NOT EXISTS purchases, items
Tables == {"purchases", "items"}

\* the rows of s from position i on whose field col is LIKE %arg%
RECURSIVE RowsLike(_, _, _, _)
RowsLike(s, i, col, arg) ==
    IF i > Len(s) THEN <<>>
    ELSE (IF LikeContains(s[i][col], arg) THEN <<s[i]>> ELSE <<>>) \o RowsLike(s, i + 1, col, arg)

\* SELECT * FROM purchases WHERE LOWER(merchant_name) LIKE ?
SelectByMerchant(db, merchant_name) == RowsLike(db.purchases, 1, "merchant_name", merchant_name)

\* SELECT * FROM purchases WHERE transaction_date BETWEEN ? AND ?
SelectByDateRange(db, start_date, end_date) ==
    RowsWhere(db.purchases, 1,
              {r \in Rows(db.purchases) : Between(r.transaction_date, start_date, end_date)})

\* the item rows of a purchase, in rowid order
ItemRowsOfPurchase(db, purchase_id) ==
    RowsWhere(db.items, 1, {r \in Rows(db.items) : r.purchase_id = purchase_id})

\* purchases p JOIN items i ON p.id = i.purchase_id WHERE LOWER(i.category) LIKE ?,
\* projected on p.*: one row per matching item, from purchases row a on
RECURSIVE JoinCategory(_, _, _)
JoinCategory(db, category, a) ==
    IF a > Len(db.purchases) THEN <<>>
    ELSE [k \in 1..Len(RowsLike(ItemRowsOfPurchase(db, db.purchases[a].id), 1, "category", category))
            |-> db.purchases[a]]
         \o JoinCategory(db, category, a + 1)

\* SELECT DISTINCT: each row once, at its first position, from position i on
RECURSIVE DistinctFrom(_, _)
DistinctFrom(rows, i) ==
    IF i > Len(rows) THEN <<>>
    ELSE (IF \E j \in 1..(i - 1) : rows[j] = rows[i] THEN <<>> ELSE <<rows[i]>>)
         \o DistinctFrom(rows, i + 1)

\* SELECT DISTINCT p.* FROM purchases p JOIN items i ... WHERE LOWER(i.category) LIKE ?
SelectByCategory(db, category) == DistinctFrom(JoinCategory(db, category, 1), 1)

\* the loop over purchase_rows: each row rehydrated with its items
Rehydrate(db, rows) == [i \in 1..Len(rows) |-> RowToPurchase(db, rows[i])]

\* "purchase_id, merchant_name, transaction_date, total_amount, currency,
\* payment_method, notes_json = row": ValueError unless the row has the seven
\* columns
Unpacks(row) ==
    DOMAIN row = {"id", "merchant_name", "transaction_date", "total_amount", "currency",
                  "payment_method", "notes"}

\* a read whose handler lets the error out
ReadFinishRaises(db, rows, fail) ==
    IF fail \in 1..(Len(rows) + 1) \/ \E k \in 1..Len(rows) : ~Unpacks(rows[k])
    THEN [outcome |-> "raise", ret |-> <<>>, logged |-> TRUE, error |-> "OperationalError"]
    ELSE [outcome |-> "ok", ret |-> Rehydrate(db, rows), logged |-> FALSE, error |-> "none"]

\* the try/except/finally of the four reads around their statements: number 1
\* is the SELECT on purchases (its result is rows), then one SELECT on items
\* per row; statement number fail (0: none) hits a persistence error, which
\* "except Exception" prints and turns into [], as it does the ValueError of a
\* row that does not unpack
ReadFinish(db, rows, fail) ==
    IF fail \in 1..(Len(rows) + 1) \/ \E k \in 1..Len(rows) : ~Unpacks(rows[k])
    THEN [outcome |-> "ok", ret |-> <<>>, logged |-> TRUE,
          error |-> IF fail \in 1..(Len(rows) + 1) THEN "OperationalError" ELSE "ValueError"]
    ELSE [outcome |-> "ok", ret |-> Rehydrate(db, rows), logged |-> FALSE, error |-> "none"]

\* PurchaseMemory.get_purchases_by_merchant
get_purchases_by_merchant(db, merchant_name, fail) ==
    ReadFinish(db, SelectByMerchant(db, merchant_name), fail)

\* PurchaseMemory.get_purchases_by_date_range
get_purchases_by_date_range(db, start_date, end_date, fail) ==
    ReadFinish(db, SelectByDateRange(db, start_date, end_date), fail)

\* PurchaseMemory.get_purchases_by_category
get_purchases_by_category(db, category, fail) ==
    ReadFinish(db, SelectByCategory(db, category), fail)

SelectWord == <<"s", "e", "l", "e", "c", "t">>

\* the SQL texts whose execution is modelled, trimmed and in lower case; a
\* word after the first is one token
SqlSelectAll == SelectWord \o <<" ", "*", " ", "from", " ", "purchases">>

SqlSelectIds == SelectWord \o <<" ", "id", " ", "from", " ", "purchases">>

SqlSelectReceipts == SelectWord \o <<" ", "*", " ", "from", " ", "receipts">>

SqlSelectThenDrop == SqlSelectAll \o <<";", " ", "d", "r", "o", "p", " ", "table", " ", "purchases">>

SqlDropPurchases == <<"d", "r", "o", "p", " ", "table", " ", "purchases">>

SqlDeleteItems == <<"d", "e", "l", "e", "t", "e", " ", "from", " ", "items">>

SqlError(db, sch, error) == [ok |-> FALSE, rows |-> <<>>, error |-> error, db |-> db, schema |-> sch]

SqlRows(db, sch, rows) == [ok |-> TRUE, rows |-> rows, error |-> "none", db |-> db, schema |-> sch]

\* cursor.execute(stmt), fetchall() and dict(row) on a connection that is
\* closed without a commit: a SELECT returns its rows as mappings keyed by
\* column name, a missing table or a text that is no statement is
\* OperationalError, two statements are ProgrammingError; DROP TABLE takes
\* effect at once, DELETE is undone when the connection closes
Execute(db, sch, stmt) ==
    CASE stmt = SqlSelectAll ->
           IF "purchases" \in sch THEN SqlRows(db, sch, db.purchases)
           ELSE SqlError(db, sch, "OperationalError")
      [] stmt = SqlSelectIds ->
           IF "purchases" \in sch
           THEN SqlRows(db, sch, [i \in 1..Len(db.purchases) |-> [id |-> db.purchases[i].id]])
           ELSE SqlError(db, sch, "OperationalError")
      [] stmt = SqlSelectReceipts -> SqlError(db, sch, "OperationalError")
      [] stmt = SqlSelectThenDrop -> SqlError(db, sch, "ProgrammingError")
      [] stmt = SqlDropPurchases ->
           IF "purchases" \in sch
           THEN SqlRows([db EXCEPT !.purchases = <<>>], sch \ {"purchases"}, <<>>)
           ELSE SqlError(db, sch, "OperationalError")
      [] stmt = SqlDeleteItems -> SqlRows(db, sch, <<>>)
      [] OTHER -> SqlError(db, sch, "OperationalError")

\* an execute_query that answers a failed execution with an empty result
ExecuteFinishSwallows(r) ==
    IF r.ok
    THEN [outcome |-> "ok", ret |-> r.rows, logged |-> FALSE, error |-> "none", db |-> r.db, schema |-> r.schema]
    ELSE [outcome |-> "ok", ret |-> <<>>, logged |-> TRUE, error |-> r.error, db |-> r.db, schema |-> r.schema]

\* the try/except/finally of execute_query: "except Exception as e: print(...); raise"
ExecuteFinish(r) ==
    IF r.ok
    THEN [outcome |-> "ok", ret |-> r.rows, logged |-> FALSE, error |-> "none", db |-> r.db, schema |-> r.schema]
    ELSE [outcome |-> "raise", ret |-> <<>>, logged |-> TRUE, error |-> r.error, db |-> r.db, schema |-> r.schema]

\* an execute_query that lets every text through
SelectGuardOff(query) == TRUE

\* query.strip().lower().startswith("select")
SelectGuard(query) == startswith(lower(strip(query)), SelectWord)

\* PurchaseMemory.execute_query
execute_query(db, sch, query) ==
    IF ~SelectGuard(query)
    THEN [outcome |-> "raise", ret |-> <<>>, logged |-> FALSE, error |-> "ValueError", db |-> db, schema |-> sch]
    ELSE ExecuteFinish(Execute(db, sch, lower(strip(query))))

IdR1 == <<"r", "1">>

IdR2 == <<"r", "2">>

ItemMilk == PurchaseItem(Str("Milk"), 3, 1, Str("Grocery"))

ItemPen == PurchaseItem(Str("Pen"), 2, 4, Str("Office"))

\* an item without a name: its INSERT violates NOT NULL
ItemNoName == PurchaseItem(None, 1, 1, Str("Other"))

PoolItemLists == {<<>>, <<ItemPen>>, <<ItemMilk, ItemPen>>, <<ItemPen, ItemNoName>>}

\* the scalar fields of the purchases handed to add_purchase directly; the
\* last has no merchant_name, so its INSERT/UPDATE violates NOT NULL
PoolScalars ==
    { [merchant_name |-> Str("Acme"), transaction_date |-> Text(StrftimeYmd([y |-> 2024, m |-> 3, d |-> 1])),
       total_amount |-> 5, currency |-> Str("USD"), payment_method |-> None, notes |-> <<>>],
      [merchant_name |-> Str("Bolt"), transaction_date |-> Text(StrftimeYmd([y |-> 2024, m |-> 2, d |-> 28])),
       total_amount |-> 9, currency |-> Str("EUR"), payment_method |-> Str("cash"),
       notes |-> <<"gift", "late">>],
      [merchant_name |-> None, transaction_date |-> Text(StrftimeYmd([y |-> 2024, m |-> 3, d |-> 1])),
       total_amount |-> 5, currency |-> Str("USD"), payment_method |-> None, notes |-> <<>>] }

\* the purchases handed to add_purchase directly
PoolPurchases ==
    { Purchase(sc.merchant_name, sc.transaction_date, sc.total_amount, its, sc.currency,
               sc.payment_method, sc.notes, IdR1) : sc \in PoolScalars, its \in PoolItemLists }
    \cup
    { Purchase(Str("Acme"), Text(StrftimeYmd([y |-> 2024, m |-> 3, d |-> 2])), 7, its, Str("USD"),
               None, <<"gift">>, IdR2) : its \in {<<>>, <<ItemMilk, ItemPen>>} }

\* the ids delete_purchase is called with
DeleteIds == {IdR1, IdR2}

\* the ids the coordinator deletes: those of saved receipts
SavedIds == {DefaultId(t) : t \in 0..MaxTicks}

EntryFull == Dict([name |-> Str("Milk"), price |-> Num(3), quantity |-> Num(2), category |-> Str("Grocery")])

EntryMinimal == Dict([name |-> Str("Pen"), price |-> Str("2"), quantity |-> Absent, category |-> Absent])

DateSlash == Text(<<"0", "3", "/", "0", "4", "/", "2", "0", "2", "4">>)

Document(merchant_name, store, transaction_date, date, total_amount, total, currency, payment_method, its) ==
    Dict([merchant_name |-> merchant_name, store |-> store, transaction_date |-> transaction_date,
          date |-> date, total_amount |-> total_amount, total |-> total, currency |-> currency,
          payment_method |-> payment_method, items |-> its])

\* the documents the calibration flow hands to save_calibrated_receipt
SaveDocs ==
    { Dict([merchant_name |-> Str("Acme"), store |-> Absent,
            transaction_date |-> Text(<<"0", "3", "/", "0", "4", "/", "2", "0", "2", "4">>), date |-> Absent,
            total_amount |-> Num(5), total |-> Absent, currency |-> Str("EUR"),
            payment_method |-> Str("cash"), items |-> List(<<EntryFull>>)]),
      Dict([merchant_name |-> Absent, store |-> Str("Walmart"),
            transaction_date |-> Absent, date |-> Absent,
            total_amount |-> Absent, total |-> Num(9), currency |-> Absent,
            payment_method |-> Absent, items |-> List(<<EntryMinimal, EntryFull>>)]),
      Dict([merchant_name |-> Absent, store |-> Absent,
            transaction_date |-> Absent, date |-> Absent,
            total_amount |-> Num(5), total |-> Absent, currency |-> Absent,
            payment_method |-> Absent, items |-> Absent]) }

----------------------------------------------------------------------------
(* The store specification: PurchaseMemory and CoordinatorAgent calls *)

DB == [purchases |-> purchases, items |-> items]

\* the keys of a receipt document
DocKeys ==
    {"merchant_name", "store", "transaction_date", "date", "total_amount", "total", "currency",
     "payment_method", "items"}

\* {}
EmptyDict == Dict([k \in DocKeys |-> Absent])

\* the defaults main() sets: receipt_processed False, raw_result {}, calibrated {}
NoSession == [receipt_processed |-> FALSE, raw_result |-> EmptyDict, calibrated |-> EmptyDict]

\* two tables without rows
EmptyTables == [purchases |-> <<>>, items |-> <<>>]

\* the threads that call add_purchase at the same time
Callers == {"a", "b"}

\* a caller outside add_purchase
IdleCall ==
    [stage |-> "idle", purchase |-> <<>>, existing |-> FALSE, pc |-> 0, work |-> EmptyTables,
     error |-> "none"]

NoCalls == [c \in Callers |-> IdleCall]

NoCall ==
    [op |-> "none", purchase |-> <<>>, id |-> <<>>, fail |-> 0, outcome |-> "ok", stage |-> "none",
     before |-> [purchases |-> <<>>, items |-> <<>>], existed |-> FALSE, dup |-> FALSE, ret |-> <<>>,
     arg |-> <<>>, logged |-> FALSE, error |-> "none"]

NoDoc == None

Pending == [kind |-> "pending", purchase |-> 0]

\* PurchaseMemory.__init__ on a fresh file: _initialize_db creates two empty tables
Init ==
    /\ purchases = <<>>
    /\ items = <<>>
    /\ schema = Tables
    /\ connections = 0
    /\ session = NoSession
    /\ db_path = None
    /\ calls = NoCalls
    /\ now = 0
    /\ last = NoCall
    /\ produced = {}
    /\ doc = NoDoc
    /\ result = Pending

\* the connections open once an operation that opened one has returned or
\* raised: "finally: conn.close()" closes it on every path, a conn.close() at
\* the end of straight-line code is never reached when a statement raises
OpenAfter(open, in_finally, raised) == IF in_finally \/ ~raised THEN open ELSE open + 1

\* a write call returned or raised with outcome r: the tables are r.db
Written(op, p, id, fail, dup, r) ==
    /\ purchases' = r.db.purchases
    /\ items' = r.db.items
    /\ connections' = OpenAfter(connections, TRUE, r.outcome = "raise")
    /\ last' = [NoCall EXCEPT !.op = op, !.purchase = p, !.id = id, !.fail = fail,
                              !.outcome = r.outcome, !.stage = r.stage, !.before = DB,
                              !.existed = SelectPurchaseId(DB, id), !.dup = dup, !.ret = r.id]

\* memory.add_purchase(p)
AddPurchase(p, fail) ==
    /\ fail <= Len(AddStatements(p, SelectPurchaseId(DB, p.id))) + 1
    /\ Written("add", p, p.id, fail, FALSE, add_purchase(DB, p, fail))
    /\ UNCHANGED <<db_path, calls, session, schema, now, produced, doc, result>>

\* memory.delete_purchase(id), also CoordinatorAgent.delete_purchase
DeletePurchase(id, fail) ==
    /\ fail <= Len(DeleteStatements(id))
    /\ Written("delete", <<>>, id, fail, FALSE, delete_purchase(DB, id, fail))
    /\ UNCHANGED <<db_path, calls, session, schema, now, produced, doc, result>>

\* a read call returned r: the tables are as they were
ReadReturned(op, arg, fail, r) ==
    /\ last' = [NoCall EXCEPT !.op = op, !.arg = arg, !.fail = fail, !.outcome = r.outcome,
                              !.ret = r.ret, !.logged = r.logged, !.error = r.error, !.before = DB]
    /\ connections' = OpenAfter(connections, TRUE, r.outcome = "raise")
    /\ UNCHANGED <<db_path, calls, session, purchases, items, schema, now, produced, doc, result>>

\* memory.get_all_purchases(), with a persistence error at statement number fail
GetAllPurchases(fail) ==
    /\ fail <= Len(purchases) + 1
    /\ ReadReturned("get_all", <<>>, fail, ReadFinish(DB, purchases, fail))

\* the largest statement number a persistence error is injected at
MaxFail == 6

Next ==
    \/ \E p \in PoolPurchases, fail \in 0..MaxFail : AddPurchase(p, fail)
    \/ \E id \in DeleteIds, fail \in 0..MaxFail : DeletePurchase(id, fail)
    \/ GetAllPurchases(0)

Spec == Init /\ [][Next]_vars

----------------------------------------------------------------------------
(* The coordinator specification: receipts saved through the normalizer *)

\* save_calibrated_receipt once the normalizer returned n: "if purchase:
\* self.memory.add_purchase(purchase)"; the caller says what becomes of session
SaveNormalized(n) ==
    IF n.kind # "purchase"
    THEN /\ last' = [NoCall EXCEPT !.op = "save", !.before = DB, !.stage = "no_purchase"]
         /\ UNCHANGED <<db_path, calls, purchases, items, schema, connections, now, produced, doc, result>>
    ELSE /\ Written("save", n.purchase, n.purchase.id, 0, n.purchase.id \in produced,
                    add_purchase(DB, n.purchase, 0))
         /\ produced' = produced \cup {n.purchase.id}
         /\ UNCHANGED <<db_path, calls, schema, now, doc, result>>

\* CoordinatorAgent.save_calibrated_receipt(calibrated_data)
SaveCalibratedReceipt(calibrated_data) ==
    /\ SaveNormalized(create_purchase_from_receipt_data(calibrated_data, now))
    /\ UNCHANGED session

\* one second passes
Tick ==
    /\ now < MaxTicks
    /\ now' = now + 1
    /\ UNCHANGED <<db_path, calls, session, purchases, items, schema, connections, last, produced, doc, result>>

NextSave ==
    \/ \E d \in SaveDocs : SaveCalibratedReceipt(d)
    \/ \E id \in SavedIds : DeletePurchase(id, 0)
    \/ Tick

SpecSave == Init /\ [][NextSave]_vars

----------------------------------------------------------------------------
(* The calibration specification: the receipt form of streamlit_app/app.py,
   from "Process Receipt" to "Done" *)

\* "float(x) if x else 0.0" on the text of a widget
FormFloat(text) == IF ~Truthy(text) THEN Num(0) ELSE Num(float(text).v)

\* "int(x) if x else 0" on the text of a widget
FormInt(text) == IF ~Truthy(text) THEN Num(0) ELSE Num(int(text).v)

\* items_list[i] = {"name": ..., "price": ..., "quantity": ...} from the three
\* widgets of an item row, which show itm.get(key, "")
FormItem(itm) ==
    Dict([name |-> GetDefault(itm.v, "name", Str("")),
          price |-> FormFloat(GetDefault(itm.v, "price", Str(""))),
          quantity |-> FormInt(GetDefault(itm.v, "quantity", Str(""))),
          category |-> Absent])

\* the loop over calibrated.get("items", []): every entry is written back
FormItems(calibrated) ==
    List([i \in 1..Len(GetDefault(calibrated.v, "items", List(<<>>)).v)
            |-> FormItem(GetDefault(calibrated.v, "items", List(<<>>)).v[i])])

\* the text a top-level widget shows before the user types: calibrated.get(key, "")
WidgetDefault(calibrated, key) == GetDefault(calibrated.v, key, Str(""))

\* one run of the script while the form is shown, the three top-level widgets
\* holding mn, td and ta: the form writes items and the three fields back
\* into st.session_state.calibrated
FormRun(calibrated, mn, td, ta) ==
    Dict([calibrated.v EXCEPT !.items = FormItems(calibrated), !.merchant_name = mn,
                              !.transaction_date = td, !.total_amount = FormFloat(ta)])

\* the mapping built on Done: the four keys of the form and no other
CalibratedFields(calibrated) ==
    Dict([EmptyDict.v EXCEPT !.merchant_name = calibrated.v.merchant_name,
                             !.transaction_date = calibrated.v.transaction_date,
                             !.total_amount = calibrated.v.total_amount,
                             !.items = calibrated.v.items])

\* full_data = raw.copy(); full_data.update(calibrated)
DictUpdate(raw, calibrated) ==
    Dict([k \in DocKeys |-> IF HasKey(calibrated.v, k) THEN calibrated.v[k] ELSE raw.v[k]])

\* the document Done hands to save_calibrated_receipt
FullData(sess) == DictUpdate(sess.raw_result, CalibratedFields(sess.calibrated))

\* what the receipt reader extracted from the uploaded images
ExtractedReceipts ==
    { Document(Str("Acme"), Absent, DateSlash, Absent, Num(5), Absent, Str("EUR"), Str("cash"),
               List(<<EntryFull>>)),
      Document(Str("Bolt"), Absent, DateSlash, Absent, Num(9), Absent, Absent, Str("card"),
               List(<<EntryMinimal, EntryFull>>)),
      Document(Str("Core"), Absent, Absent, Absent, Num(2), Absent, Absent, Absent, Absent) }

\* what the user types into the three top-level widgets
TypedMerchants == {Str("Dune")}

TypedDates == {Text(<<"2", "0", "2", "4", "-", "0", "3", "-", "0", "5">>)}

TypedTotals == {Str("")}

\* "Process Receipt" while no receipt is in progress: the extraction result
\* becomes st.session_state.calibrated and the form is rendered in the same
\* run. doc remembers what was extracted
ProcessReceipt(extracted) ==
    /\ ~session.receipt_processed
    /\ session' = [session EXCEPT !.receipt_processed = TRUE,
                                  !.calibrated = FormRun(extracted, WidgetDefault(extracted, "merchant_name"),
                                                         WidgetDefault(extracted, "transaction_date"),
                                                         WidgetDefault(extracted, "total_amount"))]
    /\ doc' = extracted
    /\ last' = [NoCall EXCEPT !.op = "process", !.before = DB]
    /\ UNCHANGED <<db_path, calls, purchases, items, schema, connections, now, produced, result>>

\* the user types into the top-level widgets and the script runs again
EditForm(mn, td, ta) ==
    /\ session.receipt_processed
    /\ session' = [session EXCEPT !.calibrated = FormRun(session.calibrated, mn, td, ta)]
    /\ UNCHANGED <<db_path, calls, purchases, items, schema, connections, now, last, produced, doc, result>>

\* "Done": the merged document is saved and the session keys are popped
ClickDone ==
    /\ session.receipt_processed
    /\ SaveNormalized(create_purchase_from_receipt_data(FullData(session), now))
    /\ session' = NoSession

NextCalibrate ==
    \/ \E extracted \in ExtractedReceipts : ProcessReceipt(extracted)
    \/ \E mn \in TypedMerchants \cup {session.calibrated.v.merchant_name},
          td \in TypedDates \cup {session.calibrated.v.transaction_date},
          ta \in TypedTotals \cup {session.calibrated.v.total_amount} : EditForm(mn, td, ta)
    \/ ClickDone

SpecCalibrate == Init /\ [][NextCalibrate]_vars

----------------------------------------------------------------------------
(* The query specification: the filtered reads and execute_query on a store
   filled by add_purchase *)

IdQ1 == <<"q", "1">>

IdQ2 == <<"q", "2">>

IdQ3 == <<"q", "3">>

CategoryGrocery == Text(<<"G", "r", "o", "c", "e", "r", "y">>)

CategoryGroceryLower == Text(<<"g", "r", "o", "c", "e", "r", "y">>)

CategoryOffice == Text(<<"O", "f", "f", "i", "c", "e">>)

\* three stored purchases: merchants Abc, a_c and B%; the first has two
\* grocery items, the second an item without a category, the third no item
QueryPurchases ==
    { Purchase(Text(<<"A", "b", "c">>), Text(<<"2", "0", "2", "4", "-", "0", "3", "-", "0", "1">>), 5,
               <<PurchaseItem(Str("Milk"), 3, 1, CategoryGrocery),
                 PurchaseItem(Str("Egg"), 2, 6, CategoryGroceryLower),
                 PurchaseItem(Str("Pen"), 2, 1, CategoryOffice)>>,
               Str("USD"), None, <<>>, IdQ1),
      Purchase(Text(<<"a", "_", "c">>), Text(<<"2", "0", "2", "4", "-", "0", "3", "-", "0", "5">>), 9,
               <<PurchaseItem(Str("Ink"), 9, 1, CategoryOffice),
                 PurchaseItem(Str("Cup"), 1, 1, None)>>,
               Str("EUR"), Str("cash"), <<"gift">>, IdQ2),
      Purchase(Text(<<"B", "%">>), Text(<<"2", "0", "2", "4", "-", "0", "2", "-", "2", "8">>), 7, <<>>, Str("USD"), None, <<>>, IdQ3) }

QueryIds == {IdQ1, IdQ2, IdQ3}

\* the names get_purchases_by_merchant is called with
MerchantArgs == {<<"a">>, <<"A", "B">>, <<"b", "c">>, <<"a", "_", "c">>, <<"_">>, <<"%">>, <<"z", "z">>}

\* the categories get_purchases_by_category is called with
CategoryArgs == {<<"g", "r", "o", "c", "e", "r", "y">>, <<"G", "R", "O">>, <<"o", "f", "f">>, <<"_">>, <<"x">>}

\* the bounds get_purchases_by_date_range is called with
DateArgs == {<<"2", "0", "2", "4", "-", "0", "3">>,
              <<"2", "0", "2", "4", "-", "0", "2", "-", "2", "8">>,
              <<"2", "0", "2", "4", "-", "0", "3", "-", "0", "1">>,
              <<"2", "0", "2", "4", "-", "0", "3", "-", "0", "5">>}

QuerySelectUpper == <<"S", "E", "L", "E", "C", "T", " ", "*", " ", "from", " ", "purchases">>

QuerySelectPadded == <<" ", " ", "s", "e", "l", "e", "c", "t", " ", "id", " ", "from", " ", "purchases", "\n">>

QuerySelectMixed == <<"S", "e", "L", "e", "C", "t", " ", "*", " ", "from", " ", "receipts">>

QuerySelectx == <<"s", "e", "l", "e", "c", "t", "x">>

QuerySelectThenDrop == <<"s", "e", "l", "e", "c", "t", " ", "*", " ", "from", " ", "purchases", ";", " ", "d", "r", "o", "p", " ", "table", " ", "purchases">>

QueryDrop == <<"D", "R", "O", "P", " ", "table", " ", "purchases">>

QueryDropPadded == <<" ", "d", "r", "o", "p", " ", "table", " ", "purchases">>

QueryDelete == <<"d", "e", "l", "e", "t", "e", " ", "from", " ", "items">>

QueryParen == <<"(", "s", "e", "l", "e", "c", "t", " ", "*", " ", "from", " ", "purchases", ")">>

QueryEmpty == <<>>

\* the texts execute_query is called with
QueryTexts ==
    {QuerySelectUpper, QuerySelectPadded, QuerySelectMixed, QuerySelectx, QuerySelectThenDrop,
     QueryDrop, QueryDropPadded, QueryDelete, QueryParen, QueryEmpty}

\* memory.get_purchases_by_merchant(merchant_name)
GetPurchasesByMerchant(merchant_name, fail) ==
    /\ fail <= Len(SelectByMerchant(DB, merchant_name)) + 1
    /\ ReadReturned("by_merchant", <<merchant_name>>, fail, get_purchases_by_merchant(DB, merchant_name, fail))

\* memory.get_purchases_by_category(category)
GetPurchasesByCategory(category, fail) ==
    /\ fail <= Len(SelectByCategory(DB, category)) + 1
    /\ ReadReturned("by_category", <<category>>, fail, get_purchases_by_category(DB, category, fail))

\* memory.get_purchases_by_date_range(start_date, end_date)
GetPurchasesByDateRange(start_date, end_date, fail) ==
    /\ fail <= Len(SelectByDateRange(DB, start_date, end_date)) + 1
    /\ ReadReturned("by_date_range", <<start_date, end_date>>, fail,
                    get_purchases_by_date_range(DB, start_date, end_date, fail))

\* execute_query returned or raised with outcome r
QueryReturned(query, r) ==
    /\ purchases' = r.db.purchases
    /\ items' = r.db.items
    /\ schema' = r.schema
    /\ connections' = OpenAfter(connections, TRUE, r.outcome = "raise")
    /\ last' = [NoCall EXCEPT !.op = "query", !.arg = <<query>>, !.outcome = r.outcome, !.ret = r.ret,
                              !.logged = r.logged, !.error = r.error, !.before = DB]
    /\ UNCHANGED <<db_path, calls, session, now, produced, doc, result>>

\* memory.execute_query(query)
ExecuteQuery(query) == QueryReturned(query, execute_query(DB, schema, query))

NextQuery ==
    \/ \E p \in QueryPurchases : AddPurchase(p, 0)
    \/ \E id \in QueryIds : DeletePurchase(id, 0)
    \/ \E fail \in 0..MaxFail : GetAllPurchases(fail)
    \/ \E merchant_name \in MerchantArgs, fail \in 0..MaxFail : GetPurchasesByMerchant(merchant_name, fail)
    \/ \E category \in CategoryArgs, fail \in 0..MaxFail : GetPurchasesByCategory(category, fail)
    \/ \E start_date \in DateArgs, end_date \in DateArgs, fail \in 0..MaxFail :
          GetPurchasesByDateRange(start_date, end_date, fail)
    \/ \E query \in QueryTexts : ExecuteQuery(query)

SpecQuery == Init /\ [][NextQuery]_vars

----------------------------------------------------------------------------
(* The facade specification: CoordinatorAgent.get_purchase_history and
   MemoryTool._run on a store filled by add_purchase *)

\* a facade that looks at the category before the merchant name
HistoryFilterCategoryFirst(merchant_name, category, start_date, end_date) ==
    IF Truthy(category) THEN "by_category"
    ELSE IF Truthy(merchant_name) THEN "by_merchant"
    ELSE IF Truthy(start_date) /\ Truthy(end_date) THEN "by_date_range"
    ELSE "get_all"

\* the if/elif chain of get_purchase_history: the Store read it delegates to
HistoryFilter(merchant_name, category, start_date, end_date) ==
    IF Truthy(merchant_name) THEN "by_merchant"
    ELSE IF Truthy(category) THEN "by_category"
    ELSE IF Truthy(start_date) /\ Truthy(end_date) THEN "by_date_range"
    ELSE "get_all"

\* the delegated read on the tables db
HistoryRead(db, filter, merchant_name, category, start_date, end_date) ==
    CASE filter = "by_merchant" -> get_purchases_by_merchant(db, merchant_name.v, 0)
      [] filter = "by_category" -> get_purchases_by_category(db, category.v, 0)
      [] filter = "by_date_range" -> get_purchases_by_date_range(db, start_date.v, end_date.v, 0)
      [] OTHER -> ReadFinish(db, db.purchases, 0)

\* CoordinatorAgent.get_purchase_history
get_purchase_history(db, merchant_name, category, start_date, end_date) ==
    HistoryRead(db, HistoryFilter(merchant_name, category, start_date, end_date),
                merchant_name, category, start_date, end_date)

\* the optional arguments of the facade: None, the empty string or a value
HistoryMerchants == {None, Text(<<>>), Text(<<"a", "b">>)}

HistoryCategories == {None, Text(<<>>), Text(<<"o", "f", "f">>)}

HistoryStarts == {None, Text(<<"2", "0", "2", "4", "-", "0", "2", "-", "2", "8">>)}

HistoryEnds == {None, Text(<<>>), Text(<<"2", "0", "2", "4", "-", "0", "3", "-", "0", "1">>)}

\* the facade returned r after delegating to the read named filter
HistoryReturned(args, filter, r) ==
    /\ last' = [NoCall EXCEPT !.op = "history", !.arg = args, !.stage = filter, !.outcome = r.outcome,
                              !.ret = r.ret, !.logged = r.logged, !.error = r.error, !.before = DB]
    /\ connections' = OpenAfter(connections, TRUE, r.outcome = "raise")
    /\ UNCHANGED <<db_path, calls, session, purchases, items, schema, now, produced, doc, result>>

\* coordinator.get_purchase_history(merchant_name, category, start_date, end_date)
GetPurchaseHistory(merchant_name, category, start_date, end_date) ==
    HistoryReturned(<<merchant_name, category, start_date, end_date>>,
                    HistoryFilter(merchant_name, category, start_date, end_date),
                    get_purchase_history(DB, merchant_name, category, start_date, end_date))

\* sum(p.total_amount for p in purchases) from position i on
RECURSIVE TotalSpent(_, _)
TotalSpent(ps, i) == IF i > Len(ps) THEN 0 ELSE ps[i].total_amount + TotalSpent(ps, i + 1)

\* the mapping MemoryTool._run builds from the purchases a read returned:
\* "purchases", "count" and "total_spent"
ToolSummary(ps) ==
    [purchases |-> List(ps), count |-> Num(Len(ps)), total_spent |-> Num(TotalSpent(ps, 1))]

ToolError(message) == Dict([error |-> message])

\* MemoryTool._run(query_type, **kwargs) on the tables db; kwargs.get gives
\* None for a keyword that was not passed
MemoryTool_run(db, query_type, merchant_name, category, start_date, end_date) ==
    CASE query_type = "merchant" ->
           IF ~Truthy(merchant_name) THEN ToolError(<<"merchant_name parameter is required">>)
           ELSE Dict([merchant_name |-> merchant_name]
                     @@ ToolSummary(get_purchases_by_merchant(db, merchant_name.v, 0).ret))
      [] query_type = "category" ->
           IF ~Truthy(category) THEN ToolError(<<"category parameter is required">>)
           ELSE Dict([category |-> category]
                     @@ ToolSummary(get_purchases_by_category(db, category.v, 0).ret))
      [] query_type = "date_range" ->
           IF ~Truthy(start_date) \/ ~Truthy(end_date)
           THEN ToolError(<<"start_date and end_date parameters are required">>)
           ELSE Dict([start_date |-> start_date, end_date |-> end_date]
                     @@ ToolSummary(get_purchases_by_date_range(db, start_date.v, end_date.v, 0).ret))
      [] query_type = "all" -> Dict(ToolSummary(ReadFinish(db, db.purchases, 0).ret))
      [] OTHER -> ToolError(<<"Unknown query type: ", query_type>>)

\* the query types the tool is called with
QueryTypes == {"merchant", "category", "date_range", "all", "stats"}

\* memory_tool._run(query_type, merchant_name=..., category=..., start_date=..., end_date=...)
MemoryToolRun(query_type, merchant_name, category, start_date, end_date) ==
    /\ last' = [NoCall EXCEPT !.op = "tool", !.before = DB,
                              !.arg = <<query_type, merchant_name, category, start_date, end_date>>,
                              !.ret = MemoryTool_run(DB, query_type, merchant_name, category,
                                                     start_date, end_date)]
    /\ connections' = OpenAfter(connections, TRUE, FALSE)
    /\ UNCHANGED <<db_path, calls, session, purchases, items, schema, now, produced, doc, result>>

NextHistory ==
    \/ \E p \in QueryPurchases : AddPurchase(p, 0)
    \/ \E id \in QueryIds : DeletePurchase(id, 0)
    \/ \E merchant_name \in HistoryMerchants, category \in HistoryCategories,
          start_date \in HistoryStarts, end_date \in HistoryEnds :
          GetPurchaseHistory(merchant_name, category, start_date, end_date)

SpecHistory == Init /\ [][NextHistory]_vars

NextTool ==
    \/ \E p \in QueryPurchases : AddPurchase(p, 0)
    \/ \E id \in QueryIds : DeletePurchase(id, 0)
    \/ \E query_type \in QueryTypes, merchant_name \in HistoryMerchants,
          category \in HistoryCategories \ {Text(<<>>)},
          start_date \in HistoryStarts, end_date \in HistoryEnds \ {Text(<<>>)} :
          MemoryToolRun(query_type, merchant_name, category, start_date, end_date)

SpecTool == Init /\ [][NextTool]_vars

----------------------------------------------------------------------------
(* The report specification: CoordinatorAgent.gen_monthly_report and
   MonthlyReportAgent.process_monthly_report *)

\* the distinct values of seq[1..i] in the order of their first appearance
\* (the key order of a dict, a defaultdict or a Counter)
RECURSIVE FirstSeen(_, _)
FirstSeen(seq, i) ==
    IF i = 0 THEN <<>>
    ELSE IF \E k \in 1..(i - 1) : seq[k] = seq[i] THEN FirstSeen(seq, i - 1)
    ELSE Append(FirstSeen(seq, i - 1), seq[i])

\* keys without its position i
WithoutKey(keys, i) == SubSeq(keys, 1, i - 1) \o SubSeq(keys, i + 1, Len(keys))

\* the position of the first key of the largest weight
FirstLargest(keys, weight) ==
    CHOOSE i \in DOMAIN keys :
        /\ \A j \in DOMAIN keys : weight[keys[j]] <= weight[keys[i]]
        /\ \A j \in 1..(i - 1) : weight[keys[j]] < weight[keys[i]]

\* sorted(..., key=weight, reverse=True)[:n] and Counter.most_common(n): by
\* weight, largest first, keys of equal weight in their given order
RECURSIVE Largest(_, _, _)
Largest(keys, weight, n) ==
    IF n = 0 \/ keys = <<>> THEN <<>>
    ELSE <<keys[FirstLargest(keys, weight)]>>
         \o Largest(WithoutKey(keys, FirstLargest(keys, weight)), weight, n - 1)

\* sum(p.total_amount for p in ps if p[field] == key), from position i on
RECURSIVE AmountWhere(_, _, _, _)
AmountWhere(ps, i, field, key) ==
    IF i > Len(ps) THEN 0
    ELSE (IF ps[i][field] = key THEN ps[i].total_amount ELSE 0) + AmountWhere(ps, i + 1, field, key)

\* Counter(p.merchant_name for p in ps)[key]
CountOf(ps, key) == Cardinality({i \in DOMAIN ps : ps[i].merchant_name = key})

\* "year = year or today.year", month_start and end_date as "%Y-%m-%d" texts
\* (year 0 stands for None)
ReportYear(year, t) == IF year = 0 THEN Today(t).y ELSE year

MonthStart(month, year, t) == StrftimeYmd([y |-> ReportYear(year, t), m |-> month, d |-> 1])

MonthEnd(month, year, t) ==
    StrftimeYmd([y |-> ReportYear(year, t), m |-> month, d |-> DaysInMonth(ReportYear(year, t), month)])

\* the merchant names of ps, one per purchase
MerchantNames(ps) == [i \in DOMAIN ps |-> ps[i].merchant_name]

\* the transaction dates of ps, one per purchase
TransactionDates(ps) == [i \in DOMAIN ps |-> ps[i].transaction_date]

\* steps 3 to 5 of process_monthly_report on the fetched purchases ps: the
\* figures the data context is written from. Each of "Top 3 spending days" and
\* "Top 3 merchants by spend" is a list of lines <<key, amount>>; strptime on
\* a transaction_date that is no "%Y-%m-%d" date raises
ReportOf(ps) ==
    IF \E i \in DOMAIN ps : ~strptime(ps[i].transaction_date.v, date_formats[1]).ok
    THEN [outcome |-> "raise", kind |-> "none", purchases |-> ps, total_spent |-> 0,
          top_days |-> <<>>, top_merchants |-> <<>>]
    ELSE [outcome |-> "ok", kind |-> "report", purchases |-> ps,
          total_spent |-> TotalSpent(ps, 1),
          top_days |->
              LET days == Largest(FirstSeen(TransactionDates(ps), Len(ps)),
                                  [d \in Rows(TransactionDates(ps)) |-> AmountWhere(ps, 1, "transaction_date", d)], 3)
              IN [k \in DOMAIN days |-> <<days[k], AmountWhere(ps, 1, "transaction_date", days[k])>>],
          top_merchants |->
              LET top == Largest(FirstSeen(MerchantNames(ps), Len(ps)),
                                 [m \in Rows(MerchantNames(ps)) |-> CountOf(ps, m)], 3)
              IN [k \in DOMAIN top |-> <<top[k], AmountWhere(ps, 1, "merchant_name", top[k])>>]]

\* MonthlyReportAgent.process_monthly_report(month, year) at clock t, on the
\* tables db of the agent's memory
process_monthly_report(db, month, year, t) ==
    LET fetched == get_purchases_by_date_range(db, MonthStart(month, year, t), MonthEnd(month, year, t), 0).ret
    IN IF fetched = <<>>
       THEN [outcome |-> "ok", kind |-> "no_data", purchases |-> <<>>, total_spent |-> 0,
             top_days |-> <<>>, top_merchants |-> <<>>]
       ELSE ReportOf(fetched)

\* the path CoordinatorAgent.__init__ hands to PurchaseMemory: None opens the
\* default file data/purchases.db
DbPaths == {None, Str("receipts.db")}

\* "self.memory = PurchaseMemory()" of MonthlyReportAgent.__init__: the
\* default file, which is the coordinator's file only when the coordinator
\* was given no path; otherwise a file the coordinator never writes, with the
\* two empty tables the constructor creates
ReportMemory(path, db) == IF path = None THEN db ELSE EmptyTables

\* CoordinatorAgent.gen_monthly_report(month, year)
GenMonthlyReport(month, year) ==
    /\ last' = [NoCall EXCEPT !.op = "report", !.arg = <<month, year>>, !.before = DB,
                              !.outcome = process_monthly_report(ReportMemory(db_path, DB), month, year, now).outcome,
                              !.ret = process_monthly_report(ReportMemory(db_path, DB), month, year, now)]
    /\ connections' = OpenAfter(connections, TRUE, FALSE)
    /\ UNCHANGED <<db_path, calls, session, purchases, items, schema, now, produced, doc, result>>

IdM1 == <<"m", "1">>

IdM2 == <<"m", "2">>

IdM3 == <<"m", "3">>

IdM4 == <<"m", "4">>

March(day) == Text(<<"2", "0", "2", "4", "-", "0", "3", "-", "0", day>>)

\* four purchases of March 2024: Kiosk twice for 1 each, Bakery 2 and Depot 9
ReportPurchases ==
    { Purchase(Str("Kiosk"), March("1"), 1, <<>>, Str("USD"), None, <<>>, IdM1),
      Purchase(Str("Kiosk"), March("2"), 1, <<>>, Str("USD"), None, <<>>, IdM2),
      Purchase(Str("Bakery"), March("2"), 2, <<ItemPen>>, Str("USD"), None, <<>>, IdM3),
      Purchase(Str("Depot"), March("4"), 9, <<>>, Str("USD"), None, <<>>, IdM4) }

\* the months a report is asked for
ReportMonths == {2, 3}

\* the receipt saved through the coordinator: the one that carries its date
ReportDocs == {d \in SaveDocs : HasKey(d.v, "transaction_date")}

\* a coordinator constructed with or without db_path, on a fresh file
InitReport ==
    /\ purchases = <<>>
    /\ items = <<>>
    /\ schema = Tables
    /\ connections = 0
    /\ session = NoSession
    /\ db_path \in DbPaths
    /\ calls = NoCalls
    /\ now = 0
    /\ last = NoCall
    /\ produced = {}
    /\ doc = NoDoc
    /\ result = Pending

NextReport ==
    \/ \E p \in ReportPurchases : AddPurchase(p, 0)
    \/ \E d \in ReportDocs : SaveCalibratedReceipt(d)
    \/ \E month \in ReportMonths : GenMonthlyReport(month, 0)

SpecReport == InitReport /\ [][NextReport]_vars

----------------------------------------------------------------------------
(* The concurrency specification: add_purchase calls that run at the same
   time, each on the connection it opens, one SQL statement per step *)

\* caller c is inside its transaction: sqlite3 began it before the first
\* INSERT or UPDATE (statement 2) and it lasts until commit or rollback
InTransaction(c) == calls[c].stage = "running" /\ calls[c].pc > 2

\* SQLite admits one writing transaction on a file at a time
WriteLockFree(c) == \A other \in Callers \ {c} : ~InTransaction(other)

\* the statements of caller c's call, from the result of its existence check
StatementsOf(c) == AddStatements(calls[c].purchase, calls[c].existing)

\* "conn = sqlite3.connect(self.db_path); cursor = conn.cursor()"
BeginAdd(c, p) ==
    /\ calls[c].stage = "idle"
    /\ calls' = [calls EXCEPT ![c] = [IdleCall EXCEPT !.stage = "running", !.purchase = p, !.pc = 1]]
    /\ connections' = connections + 1
    /\ UNCHANGED <<db_path, session, purchases, items, schema, now, last, produced, doc, result>>

\* "SELECT id FROM purchases WHERE id = ?" and fetchone(): read outside any
\* transaction, it sees the committed tables
CheckExisting(c) ==
    /\ calls[c].stage = "running" /\ calls[c].pc = 1
    /\ calls' = [calls EXCEPT ![c].existing = SelectPurchaseId(DB, calls[c].purchase.id), ![c].pc = 2]
    /\ UNCHANGED <<db_path, session, purchases, items, schema, connections, now, last, produced, doc,
                   result>>

\* caller c after its statement ran as r on its view of the tables: on
\* IntegrityError "except Exception" rolls back and raises, "finally" closes
Executed(c, r) ==
    IF r.ok
    THEN /\ calls' = [calls EXCEPT ![c].work = r.db, ![c].pc = calls[c].pc + 1]
         /\ UNCHANGED <<purchases, items, connections>>
    ELSE /\ calls' = [calls EXCEPT ![c].stage = "raised", ![c].error = "IntegrityError",
                                   ![c].work = EmptyTables]
         /\ purchases' = Rollback(DB, r.db).purchases
         /\ items' = Rollback(DB, r.db).items
         /\ connections' = connections - 1

\* the next INSERT, UPDATE or DELETE of caller c; the first one begins the
\* transaction on the committed tables and needs the write lock
ExecuteNext(c) ==
    /\ calls[c].stage = "running" /\ calls[c].pc >= 2
    /\ StatementsOf(c)[calls[c].pc].op # "commit"
    /\ calls[c].pc = 2 => WriteLockFree(c)
    /\ Executed(c, ExecStatement(IF calls[c].pc = 2 THEN DB ELSE calls[c].work,
                                 StatementsOf(c)[calls[c].pc]))
    /\ UNCHANGED <<db_path, session, schema, now, last, produced, doc, result>>

\* the first write finds the file locked for the whole timeout of the
\* connection: sqlite3.OperationalError, rollback, raise
Busy(c) ==
    /\ calls[c].stage = "running" /\ calls[c].pc = 2
    /\ ~WriteLockFree(c)
    /\ calls' = [calls EXCEPT ![c].stage = "raised", ![c].error = "OperationalError"]
    /\ connections' = connections - 1
    /\ UNCHANGED <<db_path, session, purchases, items, schema, now, last, produced, doc, result>>

\* conn.commit(), the verifying SELECT, "return purchase.id" and conn.close()
Commit(c) ==
    /\ calls[c].stage = "running" /\ calls[c].pc >= 2
    /\ StatementsOf(c)[calls[c].pc].op = "commit"
    /\ purchases' = calls[c].work.purchases
    /\ items' = calls[c].work.items
    /\ calls' = [calls EXCEPT ![c].stage = "done", ![c].work = EmptyTables]
    /\ connections' = connections - 1
    /\ UNCHANGED <<db_path, session, schema, now, last, produced, doc, result>>

\* the purchase stored under the id before the concurrent calls
StoredBefore ==
    Purchase(Str("Old"), Text(StrftimeYmd([y |-> 2024, m |-> 2, d |-> 28])), 4, <<ItemMilk>>, Str("USD"),
             None, <<>>, IdR1)

\* the purchases of the concurrent calls, all of one id; the INSERT of the
\* last one's second item violates NOT NULL
ConcurrentPurchases ==
    { Purchase(Str("Acme"), Text(StrftimeYmd([y |-> 2024, m |-> 3, d |-> 1])), 5, <<ItemMilk, ItemPen>>,
               Str("USD"), None, <<>>, IdR1),
      Purchase(Str("Bolt"), Text(StrftimeYmd([y |-> 2024, m |-> 3, d |-> 2])), 9, <<ItemPen>>,
               Str("EUR"), Str("cash"), <<"gift">>, IdR1),
      Purchase(Str("Core"), Text(StrftimeYmd([y |-> 2024, m |-> 3, d |-> 3])), 7, <<ItemPen, ItemNoName>>,
               Str("USD"), None, <<>>, IdR1) }

\* no add_purchase call is in flight
Quiet == \A c \in Callers : calls[c].stage = "idle"

NextConcurrent ==
    \/ Quiet /\ purchases = <<>> /\ AddPurchase(StoredBefore, 0)
    \/ \E c \in Callers, p \in ConcurrentPurchases : BeginAdd(c, p)
    \/ \E c \in Callers : CheckExisting(c)
    \/ \E c \in Callers : ExecuteNext(c)
    \/ \E c \in Callers : Busy(c)
    \/ \E c \in Callers : Commit(c)

SpecConcurrent == Init /\ [][NextConcurrent]_vars

----------------------------------------------------------------------------
(* The connection specification: PurchaseMemory(db_path) and the Store calls
   on a file that starts without tables *)

\* the most connections the failed constructors leave open
MaxOpen == 2

\* the statements of _initialize_db between connect() and close()
InitStatements == <<"purchases", "items", "commit">>

\* the tables whose CREATE TABLE IF NOT EXISTS ran before statement number
\* fail raised (0: none raised); a CREATE TABLE takes effect when it runs
CreatedBefore(fail) ==
    {InitStatements[k] : k \in {j \in 1..2 : fail = 0 \/ j < fail}}

\* a database file without tables, before any PurchaseMemory is constructed
InitConnect ==
    /\ purchases = <<>>
    /\ items = <<>>
    /\ schema = {}
    /\ connections = 0
    /\ session = NoSession
    /\ db_path = None
    /\ calls = NoCalls
    /\ now = 0
    /\ last = NoCall
    /\ produced = {}
    /\ doc = NoDoc
    /\ result = Pending

\* PurchaseMemory(db_path): _initialize_db, with a persistence error at
\* statement number fail (0: none). It has no try: a statement that raises
\* leaves the constructor before conn.close()
InitializeDb(fail) ==
    /\ fail \in 0..Len(InitStatements)
    /\ fail # 0 => connections < MaxOpen
    /\ schema' = schema \cup CreatedBefore(fail)
    /\ connections' = OpenAfter(connections, FALSE, fail # 0)
    /\ last' = [NoCall EXCEPT !.op = "init", !.fail = fail, !.before = DB,
                              !.outcome = IF fail = 0 THEN "ok" ELSE "raise",
                              !.stage = IF fail = 0 THEN "none" ELSE InitStatements[fail]]
    /\ UNCHANGED <<db_path, calls, session, purchases, items, now, produced, doc, result>>

\* a PurchaseMemory can work on the file: both tables exist
StoreReady == Tables \subseteq schema

NextConnect ==
    \/ \E fail \in 0..MaxFail : InitializeDb(fail)
    \/ StoreReady /\ \E p \in QueryPurchases, fail \in 0..MaxFail : AddPurchase(p, fail)
    \/ StoreReady /\ \E id \in QueryIds, fail \in 0..MaxFail : DeletePurchase(id, fail)
    \/ StoreReady /\ \E fail \in 0..MaxFail : GetAllPurchases(fail)
    \/ StoreReady /\ \E query \in QueryTexts : ExecuteQuery(query)

SpecConnect == InitConnect /\ [][NextConnect]_vars

----------------------------------------------------------------------------
(* fix_json_ids and convert_data: ids derived from merchant and date, and the
   import of a JSON list into the database file *)

\* str(n) of a counter
RECURSIVE DecimalText(_)
DecimalText(n) ==
    IF n < 10 THEN <<Digits[n + 1]>> ELSE Append(DecimalText(n \div 10), Digits[(n % 10) + 1])

\* str(uuid.uuid5(uuid.NAMESPACE_DNS, name)): a hash of name, taken to be free
\* of collisions
uuid5(name) == <<"uuid5">> \o name

\* f"{purchase['merchant_name']}_{purchase['transaction_date']}", both strings
MerchantKey(purchase) == purchase.merchant_name.v \o <<"_">> \o purchase.transaction_date.v

\* purchase['merchant_name'] and purchase['transaction_date'] do not raise KeyError
HasPair(purchase) == HasKey(purchase, "merchant_name") /\ HasKey(purchase, "transaction_date")

\* merchant_date_ids once merchant_key has been counted: 1 for a new key, one
\* more for a key already there
CountKey(merchant_date_ids, merchant_key) ==
    [k \in DOMAIN merchant_date_ids \cup {merchant_key} |->
       IF k # merchant_key THEN merchant_date_ids[k]
       ELSE IF k \in DOMAIN merchant_date_ids THEN merchant_date_ids[k] + 1 ELSE 1]

\* unique_id: the key itself the first time, the key, "_" and the counter after
UniqueId(merchant_date_ids, merchant_key) ==
    IF merchant_key \in DOMAIN merchant_date_ids
    THEN merchant_key \o <<"_">> \o DecimalText(merchant_date_ids[merchant_key] + 1)
    ELSE merchant_key

\* the id derived for purchase, given the counters before it
DerivedId(merchant_date_ids, purchase) == uuid5(UniqueId(merchant_date_ids, MerchantKey(purchase)))

\* the loop of fix_json_ids from record i on: every record gets a derived id;
\* a record without merchant_name or transaction_date raises KeyError
RECURSIVE FixLoop(_, _, _, _)
FixLoop(records, i, merchant_date_ids, acc) ==
    IF i > Len(records) THEN [outcome |-> "ok", ret |-> acc]
    ELSE IF ~HasPair(records[i].v) THEN [outcome |-> "raise", ret |-> <<>>]
    ELSE FixLoop(records, i + 1, CountKey(merchant_date_ids, MerchantKey(records[i].v)),
                 Append(acc, Dict([records[i].v EXCEPT
                                     !.id = Text(DerivedId(merchant_date_ids, records[i].v))])))

\* fix_json_ids: the list written to output_path (nothing is written for an
\* empty list)
fix_json_ids(records) ==
    IF records = <<>> THEN [outcome |-> "ok", ret |-> <<>>]
    ELSE FixLoop(records, 1, <<>>, <<>>)

\* import_from_json derives the id: "'id' not in purchase or purchase['id'] in
\* merchant_date_ids"
DerivesId(merchant_date_ids, purchase) ==
    ~HasKey(purchase, "id") \/ purchase.id.v \in DOMAIN merchant_date_ids

\* the parameter tuple of the INSERT on purchases in import_from_json: the
\* table of convert_data has no notes column
ImportRow(purchase, purchase_id) ==
    [id |-> purchase_id, merchant_name |-> purchase.merchant_name,
     transaction_date |-> purchase.transaction_date, total_amount |-> purchase.total_amount.v,
     currency |-> GetDefault(purchase, "currency", Str("USD")),
     payment_method |-> Get(purchase, "payment_method")]

\* the parameter tuple of the INSERT on items in import_from_json
ImportItemRow(purchase_id, item) ==
    [purchase_id |-> purchase_id, name |-> item.name, price |-> item.price.v,
     quantity |-> GetDefault(item, "quantity", Num(1)).v,
     category |-> GetDefault(item, "category", Str("Other"))]

\* the inner loop over purchase.get('items', []) from entry k on: item['name']
\* or item['price'] missing is KeyError; what was written before stays
RECURSIVE ImportItems(_, _, _, _)
ImportItems(db, purchase_id, item_list, k) ==
    IF k > Len(item_list) THEN [ok |-> TRUE, db |-> db]
    ELSE IF ~HasKey(item_list[k].v, "name") \/ ~HasKey(item_list[k].v, "price")
    THEN [ok |-> FALSE, db |-> db]
    ELSE IF ~ItemRowAccepted(ImportItemRow(purchase_id, item_list[k].v)) THEN [ok |-> FALSE, db |-> db]
    ELSE ImportItems([db EXCEPT !.items = Append(db.items, ImportItemRow(purchase_id, item_list[k].v))],
                     purchase_id, item_list, k + 1)

\* the INSERT of one purchase and its items under purchase_id: [ok |-> FALSE]
\* when a key is missing or the INSERT on purchases is refused
ImportOne(db, purchase, purchase_id) ==
    IF ~HasPair(purchase) \/ ~HasKey(purchase, "total_amount") THEN [ok |-> FALSE, db |-> db]
    ELSE IF ~ExecStatement(db, [op |-> "insert_purchase", row |-> ImportRow(purchase, purchase_id)]).ok
    THEN [ok |-> FALSE, db |-> db]
    ELSE ImportItems(ExecStatement(db, [op |-> "insert_purchase", row |-> ImportRow(purchase, purchase_id)]).db,
                     purchase_id, GetDefault(purchase, "items", List(<<>>)).v, 1)

\* the loop of import_from_json from record i on; ids collects the purchase_id
\* of each record (None when the derivation raised KeyError), count is
\* imported_count. "except Exception: continue" skips a record that raised
RECURSIVE ImportLoop(_, _, _, _, _, _)
ImportLoop(db, records, i, merchant_date_ids, ids, count) ==
    IF i > Len(records) THEN [db |-> db, ids |-> ids, count |-> count]
    ELSE LET purchase == records[i].v IN
      IF DerivesId(merchant_date_ids, purchase)
      THEN IF ~HasPair(purchase)
           THEN ImportLoop(db, records, i + 1, merchant_date_ids, Append(ids, None), count)
           ELSE LET r == ImportOne(db, purchase, DerivedId(merchant_date_ids, purchase))
                IN ImportLoop(r.db, records, i + 1, CountKey(merchant_date_ids, MerchantKey(purchase)),
                              Append(ids, Text(DerivedId(merchant_date_ids, purchase))),
                              IF r.ok THEN count + 1 ELSE count)
      ELSE LET r == ImportOne(db, purchase, purchase.id.v)
           IN ImportLoop(r.db, records, i + 1, merchant_date_ids, Append(ids, purchase.id),
                         IF r.ok THEN count + 1 ELSE count)

\* reset_database: both tables dropped and created again
reset_database(db) == [purchases |-> <<>>, items |-> <<>>]

\* import_from_json(json_path, conn, force_reset=True) on the tables db
import_from_json(db, records) ==
    IF records = <<>> THEN [db |-> db, ids |-> <<>>, count |-> 0]
    ELSE ImportLoop(IF Len(db.purchases) > 0 THEN reset_database(db) ELSE db, records, 1, <<>>, <<>>, 0)

\* the records of the JSON files
JsonItemMilk == Dict([name |-> Str("Milk"), price |-> Num(3), quantity |-> Absent, category |-> Absent])

JsonItemNoName == Dict([name |-> Absent, price |-> Num(1), quantity |-> Num(2), category |-> Str("Office")])

JsonRecord(id, merchant_name, transaction_date, item_list) ==
    Dict([id |-> id, merchant_name |-> merchant_name, transaction_date |-> transaction_date,
          total_amount |-> Num(5), currency |-> Absent, payment_method |-> Absent, items |-> item_list])

\* merchant a on date b, without and with an id; a on b_2 and on b_c, a_b on
\* c; a record without a date
JsonRecords ==
    { JsonRecord(Absent, Text(<<"a">>), Text(<<"b">>), Absent),
      JsonRecord(Text(<<"x">>), Text(<<"a">>), Text(<<"b">>), List(<<JsonItemMilk, JsonItemNoName>>)),
      JsonRecord(Absent, Text(<<"a">>), Text(<<"b", "_", "2">>), List(<<JsonItemMilk>>)),
      JsonRecord(Absent, Text(<<"a">>), Text(<<"b", "_", "c">>), Absent),
      JsonRecord(Absent, Text(<<"a", "_", "b">>), Text(<<"c">>), Absent),
      JsonRecord(Text(<<"y">>), Text(<<"a">>), Absent, Absent) }

\* the longest JSON list
MaxRecords == 2

JsonLists == UNION {[1..n -> JsonRecords] : n \in 0..MaxRecords}

\* fix_json_ids(json_path, output_path) on the list purchases_json
FixJsonIds(purchases_json) ==
    /\ last' = [NoCall EXCEPT !.op = "fix_ids", !.arg = <<purchases_json>>, !.before = DB,
                              !.outcome = fix_json_ids(purchases_json).outcome,
                              !.ret = fix_json_ids(purchases_json).ret]
    /\ UNCHANGED <<db_path, calls, session, purchases, items, schema, connections, now, produced, doc, result>>

\* main() returned after importing with outcome r
Converted(purchases_json, r) ==
    /\ purchases' = r.db.purchases
    /\ items' = r.db.items
    /\ schema' = schema \cup Tables
    /\ last' = [NoCall EXCEPT !.op = "import", !.arg = <<purchases_json>>, !.before = DB,
                              !.ret = [ids |-> r.ids, count |-> r.count]]
    /\ UNCHANGED <<db_path, calls, session, connections, now, produced, doc, result>>

\* convert_data.main() on the list purchases_json: setup_database, then
\* import_from_json with force_reset=True, then conn.close()
ConvertData(purchases_json) == Converted(purchases_json, import_from_json(DB, purchases_json))

\* PurchaseMemory(db_path) on the file convert_data has set up
OpenStore == StoreReady /\ InitializeDb(0)

NextImport ==
    \/ \E purchases_json \in JsonLists : FixJsonIds(purchases_json)
    \/ \E purchases_json \in JsonLists : ConvertData(purchases_json)
    \/ OpenStore
    \/ StoreReady /\ \E fail \in 0..MaxFail : GetAllPurchases(fail)

SpecImport == InitConnect /\ [][NextImport]_vars

----------------------------------------------------------------------------
(* The normalizer specification: one call on a document drawn from NormDocs *)

\* the longest item list of a document
MaxEntries == 2

EntryNoName == Dict([name |-> Absent, price |-> Num(1), quantity |-> Absent, category |-> Absent])

EntryNoPrice == Dict([name |-> Str("Tea"), price |-> None, quantity |-> Num(1), category |-> Str("Grocery")])

EntryBadPrice == Dict([name |-> Str("Gum"), price |-> Str("abc"), quantity |-> Absent, category |-> Absent])

EntryBadQuantity == Dict([name |-> Str("Soap"), price |-> Num(4), quantity |-> None, category |-> Str("Household")])

\* an entry that is a bare string, not a mapping
EntryNotDict == Str("Milk")

Entries == {EntryFull, EntryMinimal, EntryNoName, EntryNoPrice, EntryBadPrice, EntryBadQuantity, EntryNotDict}

RECURSIVE SeqsUpTo(_, _)
\* all sequences over S of length at most n
SeqsUpTo(S, n) ==
    IF n = 0 THEN {<<>>}
    ELSE LET shorter == SeqsUpTo(S, n - 1)
         IN shorter \cup {Append(q, e) : q \in {x \in shorter : Len(x) = n - 1}, e \in S}

AllItemValues == {Absent, None} \cup {List(q) : q \in SeqsUpTo(Entries, MaxEntries)}

FewItemValues == {Absent, List(<<EntryMinimal, EntryNoName>>), List(<<EntryNotDict>>)}

DateBad == Text(<<"2", "0", "2", "4", "-", "1", "3", "-", "4", "5">>)

DateWords == Text(<<"March", " ", "5", ",", " ", "2", "0", "2", "4">>)

\* every combination of the scalar keys, with a few item lists
DocsByScalars ==
    { Document(m, st, td, dt, ta, tt, ex[1], ex[2], its) :
        m \in {Absent, Str(""), Str("Acme")}, st \in {Absent, Str("Walmart")},
        td \in {Absent, Str(""), DateSlash, DateBad}, dt \in {Absent, DateWords},
        ta \in {Absent, None, Num(5), Str("abc")}, tt \in {Absent, Str("5")},
        ex \in {<<Absent, Absent>>, <<Str("EUR"), Str("cash")>>},
        its \in FewItemValues }

\* every item list, with a few combinations of the scalar keys
DocsByItems ==
    { Document(sc[1], sc[2], sc[3], Absent, sc[4], sc[5], Absent, Absent, its) :
        sc \in { <<Str("Acme"), Absent, DateSlash, Num(5), Absent>>,
                 <<Absent, Str("Walmart"), Absent, Absent, Num(0)>>,
                 <<Str("Acme"), Absent, Absent, Str("abc"), Absent>>,
                 <<Absent, Absent, DateSlash, Num(5), Absent>> },
        its \in AllItemValues }

EntryNegPrice == Dict([name |-> Str("Pen"), price |-> Num(0 - 3), quantity |-> Absent, category |-> Absent])

\* what the calibration form writes for a blank quantity field
EntryZeroQuantity == Dict([name |-> Str("Pen"), price |-> Num(2), quantity |-> Num(0), category |-> Absent])

EntryNegQuantity == Dict([name |-> Str("Pen"), price |-> Str("2"), quantity |-> Str("-3"), category |-> Absent])

\* documents with amounts and quantities of either sign
DocsByAmounts ==
    { Document(Str("Acme"), Absent, DateSlash, Absent, ta, Absent, Absent, Absent, its) :
        ta \in {Num(5), Num(0), Num(0 - 3), Str("-3")},
        its \in {Absent, List(<<EntryFull>>), List(<<EntryNegPrice>>), List(<<EntryZeroQuantity>>),
                 List(<<EntryFull, EntryNegQuantity>>)} }

DateIso == Text(<<"2", "0", "2", "4", "-", "0", "3", "-", "0", "4">>)

DateIsoShort == Text(<<"2", "0", "2", "4", "-", "1", "-", "5">>)

DateDayFirst == Text(<<"1", "3", "/", "0", "4", "/", "2", "0", "2", "4">>)

DateLeapDay == Text(<<"2", "9", "/", "0", "2", "/", "2", "0", "2", "4">>)

DateYearSlash == Text(<<"2", "0", "2", "4", "/", "0", "3", "/", "0", "4">>)

DateDayWords == Text(<<"5", " ", "March", " ", "2", "0", "2", "4">>)

DateNoSuchDay == Text(<<"0", "2", "/", "3", "0", "/", "2", "0", "2", "4">>)

DateStrings ==
    {DateIso, DateIsoShort, DateSlash, DateDayFirst, DateLeapDay, DateYearSlash, DateWords, DateDayWords,
     DateNoSuchDay, DateBad}

\* every date string, as transaction_date or as date, with a few item lists
DocsByDates ==
    { Document(Str("Acme"), Absent, td, Absent, Num(5), Absent, Absent, Absent, its) :
        td \in DateStrings, its \in {Absent, List(<<EntryFull>>), List(<<EntryNotDict>>)} }
    \cup
    { Document(Absent, Str("Walmart"), Absent, dt, Absent, Num(9), Absent, Absent, List(<<EntryMinimal>>)) :
        dt \in DateStrings }

NormDocs == DocsByDates \cup DocsByScalars \cup DocsByItems \cup DocsByAmounts \cup {None, Str("not a mapping")}

InitNormalize ==
    /\ purchases = <<>>
    /\ items = <<>>
    /\ schema = Tables
    /\ connections = 0
    /\ session = NoSession
    /\ db_path = None
    /\ calls = NoCalls
    /\ now \in 0..MaxTicks
    /\ last = NoCall
    /\ produced = {}
    /\ doc \in NormDocs
    /\ result = Pending

\* create_purchase_from_receipt_data(doc)
Normalize ==
    /\ result = Pending
    /\ result' = create_purchase_from_receipt_data(doc, now)
    /\ UNCHANGED <<db_path, calls, session, purchases, items, schema, connections, now, last, produced, doc>>

NextNormalize == Normalize

SpecNormalize == InitNormalize /\ [][NextNormalize]_vars

----------------------------------------------------------------------------
(* Properties of the store (specification Spec) *)

\* the item rows owned by id, in rowid order
ItemRowsOf(tbl, id) == RowsWhere(tbl, 1, {r \in Rows(tbl) : r.purchase_id = id})

SameItems(rows, its) ==
    /\ Len(rows) = Len(its)
    /\ \A k \in 1..Len(its) :
         /\ rows[k].name = its[k].name
         /\ rows[k].price = its[k].price
         /\ rows[k].quantity = its[k].quantity
         /\ rows[k].category = its[k].category

\* C1: add_purchase on an id that is already stored leaves exactly one purchase
\* row with that id, carrying the scalar fields of the new purchase, and the item
\* rows of that id are exactly the new purchase's items, in order: none of the
\* old items remains, none is duplicated or merged.
C1_UpsertReplaces ==
    (last.op = "add" /\ last.outcome = "ok" /\ last.existed) =>
        /\ Cardinality({i \in DOMAIN purchases : purchases[i].id = last.id}) = 1
        /\ \A i \in DOMAIN purchases :
             purchases[i].id = last.id =>
               /\ purchases[i].merchant_name = last.purchase.merchant_name
               /\ purchases[i].transaction_date = last.purchase.transaction_date
               /\ purchases[i].total_amount = last.purchase.total_amount
               /\ purchases[i].currency = last.purchase.currency
               /\ purchases[i].payment_method = last.purchase.payment_method
        /\ SameItems(ItemRowsOf(items, last.id), last.purchase.items)

\* an update that replaced two items by one of them and changed the merchant
C1_Witness ==
    /\ last.op = "add" /\ last.outcome = "ok" /\ last.existed
    /\ Len(ItemRowsOf(last.before.items, last.id)) = 2
    /\ Len(last.purchase.items) = 1
    /\ \E k \in 1..2 : ItemRowsOf(last.before.items, last.id)[k].name = last.purchase.items[1].name
    /\ \E i \in DOMAIN last.before.purchases :
         /\ last.before.purchases[i].id = last.id
         /\ last.before.purchases[i].merchant_name # last.purchase.merchant_name

\* C2: when a statement of add_purchase or delete_purchase fails (the existence
\* check, the purchase insert/update, the deletion of items, an item insert, the
\* deletion of the purchase row or the commit), the call raises and both tables
\* are exactly what they were before the call.
C2_AtomicWrites ==
    (last.op \in {"add", "delete"} /\ last.stage \notin {"none", "verify"}) =>
        /\ last.outcome = "raise"
        /\ purchases = last.before.purchases
        /\ items = last.before.items

\* an update whose second item insert violated NOT NULL, after the purchase row
\* was updated, the old items deleted and the first item inserted
C2_Witness ==
    /\ last.op = "add" /\ last.existed /\ last.fail = 0
    /\ last.stage = "insert_item"
    /\ Len(last.purchase.items) = 2
    /\ Len(ItemRowsOf(last.before.items, last.id)) = 2
    /\ \E i \in DOMAIN last.before.purchases :
         /\ last.before.purchases[i].id = last.id
         /\ last.before.purchases[i].merchant_name # last.purchase.merchant_name

\* C3: after a successful add_purchase(p), get_all_purchases() contains a
\* Purchase equal to p in every field, the notes and the items in order included.
C3_RoundTrip ==
    (last.op = "add" /\ last.outcome = "ok") =>
        \E i \in DOMAIN get_all_purchases(DB) : get_all_purchases(DB)[i] = last.purchase

\* a purchase with two notes, a payment method and two items, stored next to
\* another purchase that has items of its own
C3_Witness ==
    /\ last.op = "add" /\ last.outcome = "ok"
    /\ Len(last.purchase.notes) = 2
    /\ last.purchase.payment_method.t = "str"
    /\ Len(last.purchase.items) = 2
    /\ \E i \in DOMAIN purchases : purchases[i].id # last.id /\ ItemRowsOf(items, purchases[i].id) # <<>>

\* C4: a successful delete_purchase(id) leaves no purchase row and no item row
\* of that id, so get_all_purchases() excludes it; with an id that is not
\* stored (and no persistence error) it does not raise and changes nothing.
C4_Delete ==
    /\ (last.op = "delete" /\ last.outcome = "ok") =>
          /\ \A i \in DOMAIN purchases : purchases[i].id # last.id
          /\ \A k \in DOMAIN items : items[k].purchase_id # last.id
          /\ \A i \in DOMAIN get_all_purchases(DB) : get_all_purchases(DB)[i].id # last.id
    /\ (last.op = "delete" /\ ~last.existed /\ last.fail = 0) =>
          /\ last.outcome = "ok"
          /\ purchases = last.before.purchases
          /\ items = last.before.items

\* a stored purchase with two items was deleted while another one stays
C4_Witness ==
    /\ last.op = "delete" /\ last.outcome = "ok" /\ last.existed
    /\ Len(ItemRowsOf(last.before.items, last.id)) = 2
    /\ Len(purchases) = 1

\* C6: every item row belongs to a stored purchase, in every state reached by
\* add_purchase and delete_purchase calls, failed ones included.
C6_NoOrphanItems ==
    \A k \in DOMAIN items : \E i \in DOMAIN purchases : purchases[i].id = items[k].purchase_id

\* a purchase with items was deleted and the items of another purchase remain
C6_Witness ==
    /\ last.op = "delete" /\ last.outcome = "ok" /\ last.existed
    /\ ItemRowsOf(last.before.items, last.id) # <<>>
    /\ items # <<>>

----------------------------------------------------------------------------
(* Properties of the coordinator (specification SpecSave) *)

\* C5: two purchases produced by two normalizer calls carry different ids, so
\* saving the second never finds the id already produced or already stored.
C5_UniqueIds ==
    (last.op = "save" /\ last.stage # "no_purchase") => (~last.dup /\ ~last.existed)

----------------------------------------------------------------------------
(* Properties of the normalizer (specification SpecNormalize) *)

Done == result.kind # "pending"

\* merchant_name is present, directly or through the alias store
MerchantPresent(d) ==
    Truthy(d.merchant_name) \/ (d.merchant_name.t = "absent" /\ Truthy(d.store))

\* a total_amount coercible to a number is present, directly or through the alias total
TotalPresent(d) ==
    float(d.total_amount).ok \/ (d.total_amount.t = "absent" /\ float(d.total).ok)

HasMerchantAndTotal(d) == d.t = "dict" /\ MerchantPresent(d.v) /\ TotalPresent(d.v)

\* neither merchant_name nor store has a value, or the total that alias
\* resolution selects is missing or not a number
LacksRequired(d) ==
    \/ d.t # "dict"
    \/ ~Truthy(d.v.merchant_name) /\ ~Truthy(d.v.store)
    \/ IF d.v.total_amount.t \in {"absent", "none"}
       THEN ~float(d.v.total).ok
       ELSE ~float(d.v.total_amount).ok

NoDate(d) == d.transaction_date.t \in {"absent", "none"} /\ d.date.t \in {"absent", "none"}

\* C7: a document with merchant_name and a coercible total_amount (directly or
\* through store/total) yields a Purchase with at least one item, whatever its
\* item list holds.
C7_PurchaseWithItem ==
    (Done /\ HasMerchantAndTotal(doc)) =>
        (result.kind = "purchase" /\ Len(result.purchase.items) >= 1)

\* C8: the normalizer never raises, and it returns None for every document that
\* lacks merchant_name or a coercible total_amount after alias resolution.
C8_NoneOnMissing ==
    Done => /\ result.kind \in {"none", "purchase"}
            /\ LacksRequired(doc) => result.kind = "none"

\* the total is not a number and the item list has a valid entry, so float()
\* raises when the Purchase is built and the handler returns None
C8_Witness ==
    /\ Done /\ result.kind = "none"
    /\ doc.t = "dict"
    /\ Truthy(doc.v.merchant_name)
    /\ doc.v.total_amount = Str("abc")
    /\ doc.v.items.t = "list" /\ doc.v.items.v = <<EntryFull>>

\* C9: a document with merchant_name and total_amount but no transaction_date
\* and no date yields a Purchase dated today (YYYY-MM-DD) with a non-empty notes
\* list.
C9_MissingDateIsToday ==
    (Done /\ HasMerchantAndTotal(doc) /\ NoDate(doc.v)) =>
        /\ result.kind = "purchase"
        /\ result.purchase.transaction_date = Text(StrftimeYmd(Today(now)))
        /\ result.purchase.notes # <<>>

\* an entry the claim keeps: it has a name and a price coercible to a number
KeptEntry(e) == e.t = "dict" /\ Truthy(Get(e.v, "name")) /\ float(Get(e.v, "price")).ok

\* the entries of an item list that the claim keeps, in input order
RECURSIVE KeptEntries(_, _)
KeptEntries(item_list, i) ==
    IF i > Len(item_list) THEN <<>>
    ELSE (IF KeptEntry(item_list[i]) THEN <<item_list[i]>> ELSE <<>>) \o KeptEntries(item_list, i + 1)

\* a normalized item is the entry e: same name and price, quantity 1 and
\* category Other when the entry has none
ItemOfEntry(item, e) ==
    /\ item.name = e.v.name
    /\ item.price = float(e.v.price).v
    /\ e.v.quantity.t = "absent" => item.quantity = 1
    /\ (e.v.quantity.t # "absent" /\ int(e.v.quantity).ok) => item.quantity = int(e.v.quantity).v
    /\ item.category = (IF e.v.category.t = "absent" THEN Str("Other") ELSE e.v.category)

\* C10: with merchant_name and total_amount present, whatever the entries are
\* the normalizer returns a Purchase, and when some entry has a name and a
\* coercible price the items are exactly those entries, in input order.
C10_ItemsBestEffort ==
    (Done /\ HasMerchantAndTotal(doc) /\ doc.v.items.t = "list") =>
        /\ result.kind = "purchase"
        /\ LET kept == KeptEntries(doc.v.items.v, 1) IN
             kept # <<>> =>
               /\ Len(result.purchase.items) = Len(kept)
               /\ \A k \in 1..Len(kept) : ItemOfEntry(result.purchase.items[k], kept[k])

\* an entry that passes the loop's filter: a mapping with a name, a price that
\* is a number and a quantity (1 when absent) that is a number
Survives(e) ==
    /\ e.t = "dict"
    /\ Truthy(e.v.name)
    /\ float(e.v.price).ok
    /\ e.v.quantity.t = "absent" \/ int(e.v.quantity).ok

\* how many entries of the document's item list pass the filter (0 without a list)
Survivors(d) ==
    IF d.items.t # "list" THEN 0
    ELSE Cardinality({i \in DOMAIN d.items.v : Survives(d.items.v[i])})

\* C11: in a returned Purchase, when no entry of the item list survives (no
\* list, an empty one, only invalid entries) the items are exactly one item named
\* "Receipt total", priced at the purchase's total_amount, quantity 1, category
\* "Other"; when some entry survives, the items are the survivors and none of
\* them is the fallback item.
C11_FallbackItem ==
    (Done /\ result.kind = "purchase") =>
        /\ Survivors(doc.v) = 0 =>
              result.purchase.items =
                  <<[name |-> Str("Receipt total"), price |-> result.purchase.total_amount,
                     quantity |-> 1, category |-> Str("Other")]>>
        /\ Survivors(doc.v) > 0 =>
              /\ Len(result.purchase.items) = Survivors(doc.v)
              /\ \A k \in DOMAIN result.purchase.items :
                    result.purchase.items[k].name # Str("Receipt total")

\* a document whose two entries are both invalid got the fallback item
C11_Witness ==
    /\ Done /\ result.kind = "purchase"
    /\ doc.v.items.t = "list" /\ Len(doc.v.items.v) = 2
    /\ Survivors(doc.v) = 0
    /\ result.purchase.items[1].name = Str("Receipt total")
    /\ result.purchase.items[1].price = result.purchase.total_amount

\* C12: every returned Purchase has total_amount >= 0 and, in every item,
\* price >= 0 and quantity >= 1.
C12_DataModelInvariant ==
    (Done /\ result.kind = "purchase") =>
        /\ result.purchase.total_amount >= 0
        /\ \A k \in DOMAIN result.purchase.items :
              /\ result.purchase.items[k].price >= 0
              /\ result.purchase.items[k].quantity >= 1

Selected(d, canonical, alias, missing) ==
    IF ~missing THEN d[canonical] ELSE IF HasKey(d, alias) THEN d[alias] ELSE d[canonical]

ClaimedFormats == <<
    <<"%Y", "-", "%m", "-", "%d">>,
    <<"%m", "/", "%d", "/", "%Y">>,
    <<"%d", "/", "%m", "/", "%Y">>,
    <<"%Y", "/", "%m", "/", "%d">>,
    <<"%B", " ", "%d", ",", " ", "%Y">>,
    <<"%d", " ", "%B", " ", "%Y">> >>

\* the string the document gives as its date: transaction_date, else date
DateString(d) == IF Truthy(d.transaction_date) THEN d.transaction_date ELSE d.date

\* the formats of ClaimedFormats that parse the date string s
Parsing(s) == {k \in DOMAIN ClaimedFormats : strptime(s.v, ClaimedFormats[k]).ok}

\* the date written as YYYY-MM-DD by the first claimed format that parses s
FirstClaimed(s) ==
    Text(StrftimeYmd(strptime(s.v, ClaimedFormats[CHOOSE k \in Parsing(s) : \A j \in Parsing(s) : k <= j])))

IsYmd(x) ==
    /\ x.t = "text" /\ Len(x.v) = 10
    /\ \A i \in 1..10 : IF i \in {5, 8} THEN x.v[i] = "-" ELSE IsDigit(x.v[i])

\* C14: for a document whose date is a string, a returned Purchase carries the
\* date as parsed by the first of the six formats (in the claimed order) that
\* parses it, written as YYYY-MM-DD, or the original string when none parses;
\* and whether a Purchase is returned does not depend on the date string: it is
\* the same as for the document with the date 2024-03-04.
C14_DateFormats ==
    (Done /\ doc.t = "dict" /\ DateString(doc.v).t = "text") =>
        /\ result.kind = "purchase" =>
              IF Parsing(DateString(doc.v)) # {}
              THEN /\ result.purchase.transaction_date = FirstClaimed(DateString(doc.v))
                   /\ IsYmd(result.purchase.transaction_date)
              ELSE result.purchase.transaction_date = DateString(doc.v)
        /\ result.kind =
              create_purchase_from_receipt_data(
                  Dict([doc.v EXCEPT !.transaction_date = DateIso]), now).kind

\* 03/04/2024, valid both month-first and day-first, was read as March 4th
C14_Witness ==
    /\ Done /\ result.kind = "purchase"
    /\ doc.v.transaction_date = DateSlash
    /\ Cardinality(Parsing(DateSlash)) = 2
    /\ result.purchase.transaction_date = DateIso

\* 02/30/2024 names no calendar day in any format and was kept as it is
C14_WitnessKept ==
    /\ Done /\ result.kind = "purchase"
    /\ doc.v.transaction_date = DateNoSuchDay
    /\ result.purchase.transaction_date = DateNoSuchDay

----------------------------------------------------------------------------
(* Properties of the reads and of execute_query (specification SpecQuery) *)

\* the text, once leading blanks are dropped and letters lowered, begins with select
BeginsWithSelect(text) ==
    \E n \in 0..Len(text) :
        /\ \A j \in 1..n : IsSpace(text[j])
        /\ Len(text) >= n + 6
        /\ \A k \in 1..6 : LowerTok(text[n + k]) = SelectWord[k]

PurchaseColumns ==
    {"id", "merchant_name", "transaction_date", "total_amount", "currency", "payment_method", "notes"}

\* C15: execute_query raises ValueError for every text that does not begin
\* with select once trimmed and lowered, and then the purchases, the items and
\* the tables are what they were; a text that does begin with select passes
\* the guard, and the rows of a SELECT on purchases come back as mappings keyed
\* by column name.
C15_SelectGuard ==
    (last.op = "query") =>
        /\ ~BeginsWithSelect(last.arg[1]) =>
              /\ last.outcome = "raise" /\ last.error = "ValueError"
              /\ purchases = last.before.purchases
              /\ items = last.before.items
              /\ schema = Tables
        /\ BeginsWithSelect(last.arg[1]) => last.error # "ValueError"
        /\ last.arg[1] = QuerySelectUpper =>
              /\ last.outcome = "ok"
              /\ Len(last.ret) = Len(purchases)
              /\ \A i \in DOMAIN last.ret :
                    /\ DOMAIN last.ret[i] = PurchaseColumns
                    /\ \A col \in PurchaseColumns : last.ret[i][col] = purchases[i][col]
        /\ last.arg[1] = QuerySelectPadded =>
              /\ last.outcome = "ok"
              /\ Len(last.ret) = Len(purchases)
              /\ \A i \in DOMAIN last.ret :
                    DOMAIN last.ret[i] = {"id"} /\ last.ret[i].id = purchases[i].id

\* " drop table purchases" was rejected on a store that holds purchases and items
C15_Witness ==
    /\ last.op = "query" /\ last.arg[1] = QueryDropPadded
    /\ last.outcome = "raise"
    /\ purchases # <<>> /\ items # <<>>

ReadOps == {"get_all", "by_merchant", "by_category", "by_date_range"}

FailingSelects == {QuerySelectMixed, QuerySelectx, QuerySelectThenDrop}

\* C17: a text that passes the select guard and fails during execution makes
\* execute_query return an empty sequence instead of raising.
C17_QuerySwallowsError ==
    (last.op = "query" /\ last.arg[1] \in FailingSelects) =>
        (last.outcome = "ok" /\ last.ret = <<>>)

\* C17 as amended: a text that passes the select guard and fails during
\* execution makes execute_query report the error and raise it to the caller;
\* the store is unchanged.
C17_QueryRaisesError ==
    (last.op = "query" /\ last.arg[1] \in FailingSelects) =>
        /\ BeginsWithSelect(last.arg[1])
        /\ last.outcome = "raise"
        /\ last.error \in {"OperationalError", "ProgrammingError"}
        /\ last.logged
        /\ purchases = last.before.purchases /\ items = last.before.items /\ schema = Tables

\* SELECT on the missing table receipts raised on a store that holds purchases
C17_Witness ==
    /\ last.op = "query" /\ last.arg[1] = QuerySelectMixed
    /\ last.outcome = "raise" /\ last.error = "OperationalError"
    /\ purchases # <<>>

\* the text x contains arg as a substring, ignoring case
ContainsIgnoringCase(x, arg) ==
    /\ x.t \in {"text", "str"}
    /\ \E i \in 0..Len(Chars(x)) :
          /\ i + Len(arg) <= Len(Chars(x))
          /\ \A k \in 1..Len(arg) : LowerTok(Chars(x)[i + k]) = LowerTok(arg[k])

\* how often the purchase id occurs in a returned sequence
Occurrences(ret, id) == Cardinality({k \in DOMAIN ret : ret[k].id = id})

\* every returned Purchase is a stored one, rehydrated
ReturnsStored(ret, db) ==
    \A k \in DOMAIN ret : \E i \in DOMAIN get_all_purchases(db) : ret[k] = get_all_purchases(db)[i]

\* C18: get_purchases_by_category(c) returns each stored purchase that owns an
\* item whose category contains c (ignoring case) exactly once, and no other.
C18_ByCategoryExact ==
    (last.op = "by_category" /\ last.fail = 0) =>
        /\ ReturnsStored(last.ret, last.before)
        /\ \A i \in DOMAIN last.before.purchases :
              Occurrences(last.ret, last.before.purchases[i].id) =
                 (IF \E k \in DOMAIN last.before.items :
                        /\ last.before.items[k].purchase_id = last.before.purchases[i].id
                        /\ ContainsIgnoringCase(last.before.items[k].category, last.arg[1])
                  THEN 1 ELSE 0)

\* C19: get_purchases_by_merchant(name) returns a stored purchase if and only
\* if its merchant_name contains the literal text name, ignoring case.
C19_ByMerchantExact ==
    (last.op = "by_merchant" /\ last.fail = 0) =>
        /\ ReturnsStored(last.ret, last.before)
        /\ \A i \in DOMAIN last.before.purchases :
              Occurrences(last.ret, last.before.purchases[i].id) =
                 (IF ContainsIgnoringCase(last.before.purchases[i].merchant_name, last.arg[1])
                  THEN 1 ELSE 0)

\* a <= b in string comparison: at the first position where they differ a has
\* the smaller character, or a is a prefix of b
StringLeq(a, b) ==
    IF \E i \in 1..Len(a) : i > Len(b) \/ a[i] # b[i]
    THEN LET d == CHOOSE i \in 1..Len(a) :
                     /\ i > Len(b) \/ a[i] # b[i]
                     /\ \A j \in 1..(i - 1) : j <= Len(b) /\ a[j] = b[j]
         IN d <= Len(b) /\ Ord(a[d]) < Ord(b[d])
    ELSE TRUE

\* C20: get_purchases_by_date_range(start, end) returns a stored purchase
\* (once) if and only if start <= transaction_date <= end in string
\* comparison, bounds included.
C20_ByDateRange ==
    (last.op = "by_date_range" /\ last.fail = 0) =>
        /\ ReturnsStored(last.ret, last.before)
        /\ \A i \in DOMAIN last.before.purchases :
              Occurrences(last.ret, last.before.purchases[i].id) =
                 (IF /\ StringLeq(last.arg[1], last.before.purchases[i].transaction_date.v)
                     /\ StringLeq(last.before.purchases[i].transaction_date.v, last.arg[2])
                  THEN 1 ELSE 0)

\* the range 2024-03-01..2024-03-05 returned the purchases dated exactly at
\* its two bounds and left out the stored purchase dated 2024-02-28
C20_Witness ==
    /\ last.op = "by_date_range" /\ last.fail = 0
    /\ Len(last.before.purchases) = 3
    /\ Len(last.ret) = 2
    /\ \E k \in 1..2 : last.ret[k].transaction_date.v = last.arg[1]
    /\ \E k \in 1..2 : last.ret[k].transaction_date.v = last.arg[2]
    /\ last.arg[1] # last.arg[2]

----------------------------------------------------------------------------
(* C21 *)

\* an optional argument counts as supplied when it is a non-empty string
Supplied(x) == x.t = "text" /\ Len(x.v) > 0

\* C21: get_purchase_history honors exactly one filter per call, by fixed
\* priority: the merchant filter if merchant_name is supplied; otherwise the
\* category filter if category is supplied; otherwise the date range if both
\* start_date and end_date are supplied; otherwise all purchases. What it
\* returns is what that one Store read returns on the tables as they were,
\* whatever the lower-priority arguments are.
C21_FilterPriority ==
    last.op = "history" =>
        LET b == last.before
        IN IF Supplied(last.arg[1])
           THEN /\ last.stage = "by_merchant"
                /\ last.ret = get_purchases_by_merchant(b, last.arg[1].v, 0).ret
           ELSE IF Supplied(last.arg[2])
           THEN /\ last.stage = "by_category"
                /\ last.ret = get_purchases_by_category(b, last.arg[2].v, 0).ret
           ELSE IF Supplied(last.arg[3]) /\ Supplied(last.arg[4])
           THEN /\ last.stage = "by_date_range"
                /\ last.ret = get_purchases_by_date_range(b, last.arg[3].v, last.arg[4].v, 0).ret
           ELSE /\ last.stage = "get_all"
                /\ last.ret = get_all_purchases(b)

\* all four arguments supplied, each filter alone would return something
\* different, and the merchant's purchases are what came back
C21_Witness ==
    /\ last.op = "history"
    /\ \A k \in 1..4 : Supplied(last.arg[k])
    /\ last.ret # <<>>
    /\ last.ret = get_purchases_by_merchant(last.before, last.arg[1].v, 0).ret
    /\ last.ret # get_purchases_by_category(last.before, last.arg[2].v, 0).ret
    /\ last.ret # get_purchases_by_date_range(last.before, last.arg[3].v, last.arg[4].v, 0).ret
    /\ last.ret # get_all_purchases(last.before)

----------------------------------------------------------------------------
(* C22 *)

\* C22: every Store operation that opens a connection, the schema
\* initialisation of the constructor included, has closed it by the time it
\* returns or raises: after any sequence of Store operations, with or without
\* errors, no connection is left open.
C22_ScopedConnections == connections = 0

----------------------------------------------------------------------------
(* C23 *)

PairOf(record) == <<record.v.merchant_name, record.v.transaction_date>>

\* the ordinal of record i among the records of the list with its pair
OrdinalOf(list, i) == Cardinality({j \in 1..i : PairOf(list[j]) = PairOf(list[i])})

\* record i of list and record j of other: same pair, same ordinal
SameOccurrence(list, i, other, j) ==
    /\ PairOf(list[i]) = PairOf(other[j])
    /\ OrdinalOf(list, i) = OrdinalOf(other, j)

\* C23: a derived id is a function only of (merchant_name, transaction_date)
\* and the ordinal of that pair's occurrence in the input: the same pair at
\* the same ordinal gets the same id in every run of fix_json_ids, on this
\* list or any other, and within one run the occurrences of one pair get
\* pairwise different ids.
C23_IdOfPairAndOrdinal ==
    (last.op = "fix_ids" /\ last.outcome = "ok") =>
        /\ \A other \in JsonLists :
             fix_json_ids(other).outcome = "ok" =>
                \A i \in DOMAIN last.ret, j \in DOMAIN other :
                    SameOccurrence(last.arg[1], i, other, j)
                        => last.ret[i].v.id = fix_json_ids(other).ret[j].v.id
        /\ \A i \in DOMAIN last.ret, j \in DOMAIN last.ret :
              (i # j /\ PairOf(last.ret[i]) = PairOf(last.ret[j])) => last.ret[i].v.id # last.ret[j].v.id

----------------------------------------------------------------------------
(* C24 *)

\* C24: MemoryTool supports the query type "stats": _run("stats") returns a
\* list with exactly one entry, and that entry has the keys total_purchases,
\* merchant_list and category_list.
C24_StatsSupported ==
    (last.op = "tool" /\ last.arg[1] = "stats") =>
        /\ last.ret.t = "list"
        /\ Len(last.ret.v) = 1
        /\ {"total_purchases", "merchant_list", "category_list"} \subseteq DOMAIN last.ret.v[1].v

----------------------------------------------------------------------------
(* C25 *)

\* C25: when the user clicks Done, every extracted field the form does not
\* edit reaches the saved Purchase unchanged from the extraction result: the
\* currency, the payment method and the category of each item.
C25_UneditedFieldsKept ==
    (last.op = "save" /\ last.outcome = "ok" /\ last.stage # "no_purchase" /\ doc.t = "dict") =>
        /\ HasKey(doc.v, "currency") => last.purchase.currency = doc.v.currency
        /\ HasKey(doc.v, "payment_method") => last.purchase.payment_method = doc.v.payment_method
        /\ HasKey(doc.v, "items") =>
              \A i \in 1..Len(doc.v.items.v) :
                  (i <= Len(last.purchase.items) /\ HasKey(doc.v.items.v[i].v, "category"))
                      => last.purchase.items[i].category = doc.v.items.v[i].v.category

----------------------------------------------------------------------------
(* C26 *)

\* the summed total_amount of the purchases of merchant m in ps, from i on
RECURSIVE SpendOf(_, _, _)
SpendOf(ps, i, m) ==
    IF i > Len(ps) THEN 0
    ELSE (IF ps[i].merchant_name = m THEN ps[i].total_amount ELSE 0) + SpendOf(ps, i + 1, m)

\* C26: the merchants process_monthly_report lists under "Top 3 merchants by
\* spend" are the three merchants (all of them when the month has fewer) with
\* the highest summed total_amount over the month's purchases, and each is
\* shown with that sum.
C26_TopMerchantsBySpend ==
    (last.op = "report" /\ last.ret.kind = "report") =>
        LET ps == last.ret.purchases
            lines == last.ret.top_merchants
            listed == {lines[k][1] : k \in DOMAIN lines}
            merchants == {ps[i].merchant_name : i \in DOMAIN ps}
        IN /\ Cardinality(listed) = Len(lines)
           /\ Len(lines) = (IF Cardinality(merchants) < 3 THEN Cardinality(merchants) ELSE 3)
           /\ \A k \in DOMAIN lines : lines[k][2] = SpendOf(ps, 1, lines[k][1])
           /\ \A m \in listed, other \in merchants \ listed : SpendOf(ps, 1, m) >= SpendOf(ps, 1, other)

----------------------------------------------------------------------------
(* C27 *)

\* the text date names a day of the given month and year
DatedInMonth(transaction_date, month, year) ==
    /\ transaction_date.t = "text"
    /\ strptime(transaction_date.v, date_formats[1]).ok
    /\ strptime(transaction_date.v, date_formats[1]).y = year
    /\ strptime(transaction_date.v, date_formats[1]).m = month

\* C27: the monthly report agent reads the store the coordinator writes to: a
\* purchase saved through the coordinator and dated in month M is among the
\* purchases gen_monthly_report(M) aggregates.
C27_ReportReadsCoordinatorStore ==
    (last.op = "report" /\ last.outcome = "ok") =>
        \A r \in Rows(purchases) :
            (r.id \in produced /\ DatedInMonth(r.transaction_date, last.arg[1], ReportYear(last.arg[2], now)))
                => \E i \in DOMAIN last.ret.purchases : last.ret.purchases[i].id = r.id

----------------------------------------------------------------------------
(* C28 *)

\* what get_all_purchases returns on the tables db, as a set of purchases
StoreMap(db) == Rows(get_all_purchases(db))

\* C28: the Store is a map from id to Purchase. get_all_purchases never
\* returns two purchases of one id; after a successful add_purchase(p) it
\* returns p for p.id and, for every other id, what it returned before the
\* call; after a successful delete_purchase(id) it returns nothing for id and,
\* for every other id, what it returned before the call.
C28_StoreIsMap ==
    /\ \A i, j \in 1..Len(purchases) :
          get_all_purchases(DB)[i].id = get_all_purchases(DB)[j].id => i = j
    /\ (last.op = "add" /\ last.outcome = "ok") =>
          StoreMap(DB) = {q \in StoreMap(last.before) : q.id # last.purchase.id} \cup {last.purchase}
    /\ (last.op = "delete" /\ last.outcome = "ok") =>
          StoreMap(DB) = {q \in StoreMap(last.before) : q.id # last.id}

\* a purchase with items has replaced the stored one of its id while a
\* purchase of another id, with items, is stored
C28_Witness ==
    /\ last.op = "add" /\ last.outcome = "ok" /\ last.existed
    /\ last.purchase.items # <<>>
    /\ last.purchase \notin StoreMap(last.before)
    /\ \E q \in StoreMap(DB) : q.id # last.purchase.id /\ q.items # <<>>

----------------------------------------------------------------------------
(* C29 *)

\* both concurrent calls have returned or raised
BothFinished == \A c \in Callers : calls[c].stage \in {"done", "raised"}

\* the tables before the concurrent calls began
TablesBefore == IF last.op = "add" THEN add_purchase(EmptyTables, StoredBefore, 0).db ELSE EmptyTables

\* the committed tables hold the purchase p and nothing else under its id:
\* one row, which is p's, and the item rows of p's list in its order
HoldsExactly(p) ==
    /\ Cardinality({i \in DOMAIN purchases : purchases[i].id = p.id}) = 1
    /\ PurchaseRow(p) \in Rows(purchases)
    /\ ItemRowsOfPurchase(DB, p.id) = [k \in 1..Len(p.items) |-> ItemRow(p.id, p.items[k])]

\* C29 as stated: after two concurrent add_purchase calls for one id, of which
\* at least one went through, the committed store holds exactly one purchase
\* row for the id with the item list of one of the calls, and the call whose
\* purchase is not the stored one has ended in a raised error.
C29_LoserRaises ==
    (BothFinished /\ \E c \in Callers : calls[c].stage = "done") =>
        /\ \E c \in Callers : HoldsExactly(calls[c].purchase)
        /\ \A c \in Callers : ~HoldsExactly(calls[c].purchase) => calls[c].stage = "raised"

\* C29, amended: at every moment the committed store is either as it was
\* before the two calls or holds exactly the purchase of a call that has
\* returned, row and item list, never a union or mixture; once both calls are
\* over it holds the purchase of a returned call if there is one. A call that
\* raised has left no write behind; a call may return normally and still be
\* overwritten by the other.
C29_OneCallsItems ==
    /\ \/ DB = TablesBefore
       \/ \E c \in Callers : calls[c].stage = "done" /\ HoldsExactly(calls[c].purchase)
    /\ (BothFinished /\ \E c \in Callers : calls[c].stage = "done") =>
          \E c \in Callers : calls[c].stage = "done" /\ HoldsExactly(calls[c].purchase)
    /\ (BothFinished /\ \A c \in Callers : calls[c].stage = "raised") => DB = TablesBefore

\* both calls found no row, one committed its INSERT with two items, the other
\* then hit the UNIQUE constraint and raised
C29_Witness ==
    /\ BothFinished
    /\ last.op = "none"
    /\ \E c, other \in Callers :
          /\ calls[c].stage = "done" /\ HoldsExactly(calls[c].purchase) /\ Len(calls[c].purchase.items) = 2
          /\ calls[other].stage = "raised" /\ calls[other].error = "IntegrityError"
          /\ ~calls[other].existing
          /\ calls[other].purchase # calls[c].purchase
          /\ \A k \in 1..Len(calls[other].purchase.items) : ItemRowAccepted(ItemRow(IdR1, calls[other].purchase.items[k]))

----------------------------------------------------------------------------
(* C30 *)

\* C30: a database populated by convert_data is readable through the Store:
\* get_all_purchases of a PurchaseMemory opened on the file returns every
\* purchase row of the file, each with its item rows.
C30_ImportReadable ==
    (last.op = "get_all" /\ last.fail = 0) =>
        /\ Len(last.ret) = Len(purchases)
        /\ \A i \in 1..Len(last.ret) :
              /\ last.ret[i].id = purchases[i].id
              /\ ItemRowsOfPurchase(DB, purchases[i].id)
                    = [k \in 1..Len(last.ret[i].items) |-> ItemRow(purchases[i].id, last.ret[i].items[k])]

====
